---- MODULE Spec2Model ----
(***************************************************************************)
(* A model of simplequi's process lifecycle (simplequi/_app.py), of the    *)
(* render loop, the input events and the draw calls of its drawing surface *)
(* (simplequi/_canvas.py), of its image handles and their caches           *)
(* (simplequi/_image.py, simplequi/_url.py) and of the objects that keep   *)
(* the application running: timers (simplequi/_timer.py), sounds           *)
(* (simplequi/_sound.py) and the frame (simplequi/_frame.py).              *)
(*                                                                         *)
(* The Qt event loop is modelled by its contract: exec_ blocks and         *)
(* dispatches events one at a time on one thread, a single-shot timer      *)
(* fires once from the loop, exit makes exec_ return once control is back  *)
(* in the loop.                                                            *)
(***************************************************************************)
EXTENDS Naturals, Integers, FiniteSets, Sequences, TLC

\* ------------------------------------------------------------------ bounds
MaxPending == 2     \* single-shot checks that may be outstanding at once
MaxRuns == 2        \* times the event loop may be entered
MaxTicks == 3       \* invocations of DrawingArea.__draw
MaxLen == 1         \* primitives one recording may hold
MaxTimerId == 2     \* Qt timer ids the surface may be handed
MaxPixmaps == 3     \* pixmaps get_pixmap may build

Objs == {"T1", "T2"}            \* objects a script may track (timers, sounds)
Wins == {"frame"}               \* top-level widgets a script may open
MainWidgets == {"frame1", "frame2"}   \* main widgets create_frame may be handed

None == "None"
Handlers == {"h1", "h2"}        \* draw callbacks a script may set

\* Python values a script may hand to a draw call. A number is kept in tenths
\* (num(107) is 10.7), a tuple or list as the sequence of its items, a str as
\* its characters.
num(v) == [v |-> v, t |-> "num"]
seq(items) == [t |-> "seq", items |-> items]
str(s) == [t |-> "str", s |-> s]
NoneValue == [t |-> "NoneType"]     \* None
point(x, y) == seq(<<num(x), num(y)>>)

\* ObjectHolder: a recorded primitive, its type and the arguments of its renderer.
ObjectHolder(obj_type, args) == [obj_type |-> obj_type, args |-> args]
\* primitives a draw callback may record: a circle and a line, as draw_circle
\* and draw_line hand them to add_object
Prims ==
    {ObjectHolder("Circle", <<<<50, 50>>, 20, 2, str("Red"), NoneValue>>),
     ObjectHolder("Line", <<<<10, 4>>, <<0, 10>>, 4, str("Red")>>)}
Colours == {"black", "white"}   \* canvas backgrounds
TimerIds == 1..MaxTimerId

\* The lists of at most n primitives.
RECURSIVE ListsUpTo(_)
ListsUpTo(n) ==
    IF n = 0 THEN {<<>>}
    ELSE LET shorter == ListsUpTo(n - 1)
         IN shorter \cup {Append(l, p) : l \in {x \in shorter : Len(x) = n - 1}, p \in Prims}

Recordings == ListsUpTo(MaxLen)

\* The four input signals of the DrawingArea and what a script may feed them.
Kinds == {"keydown", "keyup", "mouseclick", "mousedrag"}
EventHandlers == {"f1", "f2"}   \* key and mouse handlers a caller may set
controls_slot ==                \* the slot a caller hands over with them, per signal
    [keydown |-> "on_keydown", keyup |-> "on_keyup",
     mouseclick |-> "on_mouseclick", mousedrag |-> "on_mousedrag"]
Keys == {"Key_L", "Key_Left"}   \* Qt.Key values of key events
KeyCode == [Key_L |-> 76, Key_Left |-> 16777234]
Positions == {[x |-> 75, y |-> 75], [x |-> 100, y |-> 75]}   \* QPoints of mouse events

\* Image handles a script may create, and what a fetch may deliver.
Imgs == {"img1", "img2"}
Datas == {"png_4x2", "png_2x2", "not_an_image"}   \* bytes a finished reply may hold
NetworkError == "ProtocolUnknownError"            \* a reply that finished with an error
\* Views a script may ask for: <<source centre, source size, target size, rotation>>.
\* The first is the full-size view of a 4x2 image, the second differs from it
\* only in rotation, the third is a scaled part, the fourth the part the test
\* suite cuts from the middle of its sample image.
ViewKeys ==
    { <<<<2, 1>>, <<4, 2>>, <<4, 2>>, 0>>,
      <<<<2, 1>>, <<4, 2>>, <<4, 2>>, 1>>,
      <<<<1, 1>>, <<2, 2>>, <<4, 2>>, 0>>,
      <<<<432, 444>>, <<250, 302>>, <<250, 302>>, 0>> }

\* What a script may hand to the draw calls.
PointInputs == {point(107, 42), point(0, 107), point(-15, 50)}
ValueInputs == {num(46), num(150)}
\* colour strings of a draw call
LineColours == {str("red"), str("rgb(10%, 50%, 12%)"), str("notacolour")}
MaxCalls == 3       \* invocations of the timer handler
MaxStarts == 2      \* calls of Timer.start
MaxScript == 2      \* draw calls one draw callback makes
MaxDraws == 2       \* ticks of a draw callback that is a script of draw calls

PointLists ==
    { seq(<<>>),
      seq(<<point(0, 107), point(109, 105), point(50, 50)>>),
      seq(<<point(0, 100), point(100, 100), point(100, 0), point(0, 0)>>) }

VARIABLES
    \* _AppWithRunningFlag and the QApplication under it
    is_running,      \* _AppWithRunningFlag.__is_running
    tracked,         \* _AppWithRunningFlag.tracked
    windows,         \* QApplication.topLevelWidgets()
    pending,         \* single-shot timers armed with __check_for_exit
    loop,            \* "out": exec_ not in progress; "idle": in the loop,
                     \* between events; "callback": in the loop, in user code
    exit_requested,  \* QApplication.exit was called and exec_ has not returned yet
    key_error,       \* set.remove raised KeyError
    exits,           \* calls of self.exit() made by __check_for_exit in this run
    \* history of the run, read only by the properties
    runs,            \* times the event loop was entered
    last_op,         \* the operation the last step performed
    last_call,       \* per object: the last of add_tracked / remove_tracked
    cb_emptied,      \* a remove_tracked of the current callback emptied the set
    quiesced,        \* the loop runs and the last change left nothing to wait for
    \* DrawingArea and the QObject timers under it
    started,         \* DrawingArea.__started
    draw_handler,    \* DrawingArea.__draw_handler
    draw_timer_id,   \* DrawingArea.__draw_timer_id
    timers,          \* ids of the widget's active Qt timers
    objects,         \* DrawingArea.__objects
    new_objects,     \* DrawingArea.__new_objects
    aliased,         \* __new_objects and __objects are the same list object
    background,      \* DrawingArea.__background_colour
    pixmap,          \* DrawingArea.__pixmap: the fill and the primitives painted on it
    tick_renders,    \* calls of __render made by __draw
    ncalls,          \* invocations of the draw callback
    tick_raised,     \* the last __draw let an exception of the callback escape
    painted,         \* the painter calls of the last __render, the fill first
    brushes,         \* the painter's brush at each of these calls but the fill
    render_raised,   \* the exception the last __render let escape, if any
    \* history of the surface, read only by the properties
    nticks,          \* invocations of __draw
    ndiff,           \* completed recordings that differed from the stored list
    \* the DrawingArea's input signals
    connections,     \* per signal: the connected slots, in connection order
    invoked,         \* the slot calls the last operation made: slot and argument, in order
    \* history of the input events, read only by the properties
    latest,          \* per signal: the user handler of the last set call
    earlier,         \* per signal: user handlers of earlier set calls, since replaced
    last_evop,       \* the last set call or input event
    \* the image caches (simplequi/_image.py) and the replies of the fetches
    IMAGE_CACHE,     \* _IMAGE_CACHE: a dict from handle to None or its QImage (width, height)
    PIXMAP_CACHE,    \* _PIXMAP_CACHE: a dict from handle to a dict from view key to pixmap
    replies,         \* per handle: the QNetworkReply of its fetch
    npixmaps,        \* pixmaps built so far (QPixmap.fromImage calls)
    img_raised,      \* the exception the last image operation raised, if any
    \* history of the images, read only by the properties
    fetched,         \* per handle: what its fetch has delivered so far
    last_imgop,      \* the last image operation and the value it returned
    \* the Canvas wrapper of the surface
    canvas_raised,   \* the exception the last draw call raised, if any
    last_draw,       \* history: the last draw call and its arguments
    \* one Timer
    timer_active,    \* QTimer.isActive() of Timer.__timer
    stop_at,         \* the handler given to create_timer calls stop() on its
                     \* stop_at-th invocation; 0 before the timer is created
    timer_hist,      \* history: handler invocations, start() calls, the last call
    \* one Sound
    player,          \* Sound.__player: its state(), mediaStatus() and error();
                     \* mediaStatus is None before the Sound is constructed
    sound_loaded,    \* Sound.__sound_loaded
    play_requested,  \* Sound.__play_requested
    last_sound,      \* history: the last call or signal of the Sound
    \* the Frame
    main_widget,     \* Frame.__main_widget: "placeholder" for the widget of the
                     \* frame the module creates, the widget create_frame
                     \* made last, None before there is one and once closed
    first_init,      \* Frame.__first_init
    called,          \* Frame.__called
    check_queued     \* the single-shot timer of __check_no_frames_created is armed

appVars == <<is_running, tracked, windows, pending, loop, exit_requested,
             key_error, exits, runs, last_op, last_call, cb_emptied, quiesced>>

drawVars == <<started, draw_handler, draw_timer_id, timers, objects, new_objects,
              aliased, background, pixmap, tick_renders, ncalls, tick_raised,
              painted, brushes, render_raised, nticks, ndiff>>

evVars == <<connections, invoked, latest, earlier, last_evop>>

imgVars == <<IMAGE_CACHE, PIXMAP_CACHE, replies, npixmaps, img_raised, fetched,
             last_imgop>>

canvasVars == <<canvas_raised, last_draw>>

objVars == <<timer_active, stop_at, timer_hist, player, sound_loaded, play_requested,
            last_sound, main_widget, first_init, called, check_queued>>

vars == <<appVars, drawVars, evVars, imgVars, canvasVars, objVars>>

\* What the operations of the surface leave alone.
nonDrawVars == <<appVars, evVars, IMAGE_CACHE, replies, img_raised, fetched, last_imgop,
                 canvasVars, objVars>>
\* What a call of DrawingArea.__render writes.
renderVars == <<pixmap, painted, brushes, render_raised, PIXMAP_CACHE, npixmaps>>

\* ------------------------------------------------------- _AppWithRunningFlag

\* _AppWithRunningFlag.exit: clears the flag and tells the loop to return.
exit ==
    /\ is_running' = FALSE
    /\ exit_requested' = (loop # "out")

\* An exec_ that does not look at the flag.
exec_unguarded ==
    /\ is_running' = TRUE
    /\ IF loop = "out"
       THEN loop' = "idle" /\ exit_requested' = FALSE
       ELSE UNCHANGED <<loop, exit_requested>>

\* _AppWithRunningFlag.exec_: enters the loop unless the flag says it runs.
\* QCoreApplication::exec refuses to nest when a loop is already running.
exec_ ==
    IF ~is_running
    THEN /\ is_running' = TRUE
         /\ IF loop = "out"
            THEN loop' = "idle" /\ exit_requested' = FALSE
            ELSE UNCHANGED <<loop, exit_requested>>
    ELSE UNCHANGED <<is_running, loop, exit_requested>>

\* _AppWithRunningFlag.add_tracked
add_tracked(obj) ==
    tracked' = tracked \cup {obj}

\* A queue_check_for_exit that arms no timer.
queue_check_for_exit_unarmed ==
    pending' = pending

\* _AppWithRunningFlag.__queue_check_for_exit: QTimer.singleShot(wait, check)
queue_check_for_exit ==
    pending' = pending + 1

\* A check that stops as soon as either collection is empty.
nothing_left_either(t, w) ==
    t = {} \/ w = {}

\* The test of __check_for_exit on a given tracked set and widget list.
nothing_left(t, w) ==
    t = {} /\ w = {}

\* _AppWithRunningFlag.__check_for_exit
check_for_exit ==
    IF nothing_left(tracked, windows)
    THEN exit /\ exits' = exits + 1
    ELSE UNCHANGED <<is_running, exit_requested, exits>>

\* A remove_tracked that checks for exit at once instead of deferring.
remove_tracked_immediate(obj) ==
    /\ tracked' = IF obj \in tracked THEN tracked \ {obj} ELSE tracked
    /\ key_error' = key_error
    /\ pending' = pending
    /\ IF tracked' = {} /\ windows = {}
       THEN exit /\ exits' = exits + 1
       ELSE UNCHANGED <<is_running, exit_requested, exits>>

\* A remove_tracked that schedules the check only when it removed something.
remove_tracked_check_if_removed(obj) ==
    /\ tracked' = IF obj \in tracked THEN tracked \ {obj} ELSE tracked
    /\ key_error' = key_error
    /\ IF obj \in tracked THEN queue_check_for_exit ELSE pending' = pending
    /\ UNCHANGED <<is_running, exit_requested, exits>>

\* A remove_tracked without the membership test: set.remove raises KeyError.
remove_tracked_unchecked(obj) ==
    /\ tracked' = tracked \ {obj}
    /\ key_error' = (key_error \/ obj \notin tracked)
    /\ queue_check_for_exit
    /\ UNCHANGED <<is_running, exit_requested, exits>>

\* _AppWithRunningFlag.remove_tracked
remove_tracked(obj) ==
    /\ tracked' = IF obj \in tracked THEN tracked \ {obj} ELSE tracked
    /\ key_error' = key_error
    /\ queue_check_for_exit
    /\ UNCHANGED <<is_running, exit_requested, exits>>

\* ----------------------------------------------------------------- actions

InLoop == loop # "out"
UserCode == loop \in {"out", "callback"}

\* start_app / a direct call of exec_ from the script or from a handler
CallExec ==
    /\ UserCode
    /\ loop = "out" => runs < MaxRuns
    /\ exec_
    /\ runs' = IF loop = "out" /\ loop' = "idle" THEN runs + 1 ELSE runs
    /\ exits' = IF loop = "out" /\ loop' = "idle" THEN 0 ELSE exits
    /\ last_op' = "exec"
    /\ UNCHANGED <<drawVars, evVars, imgVars, canvasVars, objVars>>
    /\ UNCHANGED <<tracked, windows, pending, key_error, last_call, cb_emptied, quiesced>>

\* an explicit call of exit by the script
CallExit ==
    /\ UserCode
    /\ exit
    /\ last_op' = "exit"
    /\ UNCHANGED <<drawVars, evVars, imgVars, canvasVars, objVars>>
    /\ UNCHANGED <<tracked, windows, pending, loop, key_error, exits, runs,
                   last_call, cb_emptied, quiesced>>

AddTracked(obj) ==
    /\ UserCode
    /\ add_tracked(obj)
    /\ last_op' = "add"
    /\ UNCHANGED <<drawVars, evVars, imgVars, canvasVars, objVars>>
    /\ last_call' = [last_call EXCEPT ![obj] = "add"]
    /\ quiesced' = FALSE
    /\ UNCHANGED <<is_running, windows, pending, loop, exit_requested, key_error,
                   exits, runs, cb_emptied>>

RemoveTracked(obj) ==
    /\ UserCode
    /\ pending < MaxPending
    /\ remove_tracked(obj)
    /\ last_op' = IF obj \in tracked THEN "remove" ELSE "remove_untracked"
    /\ UNCHANGED <<drawVars, evVars, imgVars, canvasVars, objVars>>
    /\ last_call' = [last_call EXCEPT ![obj] = "remove"]
    /\ cb_emptied' = (cb_emptied \/ (loop = "callback" /\ tracked # {} /\ tracked' = {}))
    /\ quiesced' = (InLoop /\ tracked' = {} /\ windows = {})
    /\ UNCHANGED <<windows, loop, runs>>

\* a top-level widget is created and shown
OpenWindow(w) ==
    /\ UserCode
    /\ w \notin windows
    /\ windows' = windows \cup {w}
    /\ last_op' = "open"
    /\ UNCHANGED <<drawVars, evVars, imgVars, canvasVars, objVars>>
    /\ quiesced' = FALSE
    /\ UNCHANGED <<is_running, tracked, pending, loop, exit_requested, key_error,
                   exits, runs, last_call, cb_emptied>>

\* a top-level widget is closed and released; Qt emits lastWindowClosed when
\* none is left, which __init__ connected to __queue_check_for_exit
CloseWindow(w) ==
    /\ UserCode
    /\ w \in windows
    /\ windows' = windows \ {w}
    /\ IF windows' = {}
       THEN pending < MaxPending /\ queue_check_for_exit
       ELSE UNCHANGED pending
    /\ last_op' = "close"
    /\ UNCHANGED <<drawVars, evVars, imgVars, canvasVars, objVars>>
    /\ quiesced' = (InLoop /\ tracked = {} /\ windows' = {})
    /\ UNCHANGED <<is_running, tracked, loop, exit_requested, key_error, exits,
                   runs, last_call, cb_emptied>>

\* the loop dispatches an event to user code (a timer handler, a close event);
\* once exit was called it hands out no new event, only the timers already due
BeginCallback ==
    /\ loop = "idle"
    /\ ~exit_requested
    /\ loop' = "callback"
    /\ last_op' = "begin"
    /\ UNCHANGED <<drawVars, evVars, imgVars, canvasVars, objVars>>
    /\ cb_emptied' = FALSE
    /\ UNCHANGED <<is_running, tracked, windows, pending, exit_requested, key_error,
                   exits, runs, last_call, quiesced>>

EndCallback ==
    /\ loop = "callback"
    /\ loop' = "idle"
    /\ last_op' = "end"
    /\ UNCHANGED <<drawVars, evVars, imgVars, canvasVars, objVars>>
    /\ cb_emptied' = FALSE
    /\ UNCHANGED <<is_running, tracked, windows, pending, exit_requested, key_error,
                   exits, runs, last_call, quiesced>>

\* a single-shot timer armed by __queue_check_for_exit fires.  Timers fire
\* only from the loop, never inside another handler; the ones already due are
\* activated in the same dispatcher pass, so a check may still run after exit
\* was called and before exec_ returns.
CheckForExit ==
    /\ loop = "idle"
    /\ pending > 0
    /\ pending' = pending - 1
    /\ check_for_exit
    /\ last_op' = "check"
    /\ UNCHANGED <<drawVars, evVars, imgVars, canvasVars, objVars>>
    /\ UNCHANGED <<tracked, windows, loop, key_error, runs, last_call, cb_emptied,
                   quiesced>>

\* super().exec_() returns after exit
ExecReturn ==
    /\ loop = "idle"
    /\ exit_requested
    /\ loop' = "out"
    /\ exit_requested' = FALSE
    /\ last_op' = "return"
    /\ UNCHANGED <<drawVars, evVars, imgVars, canvasVars, objVars>>
    /\ quiesced' = FALSE
    /\ UNCHANGED <<is_running, tracked, windows, pending, key_error, exits, runs,
                   last_call, cb_emptied>>

InitApp ==
    /\ is_running = FALSE
    /\ tracked = {}
    /\ windows = {}
    /\ pending = 0
    /\ loop = "out"
    /\ exit_requested = FALSE
    /\ key_error = FALSE
    /\ exits = 0
    /\ runs = 0
    /\ last_op = "init"
    /\ last_call = [o \in Objs |-> "none"]
    /\ cb_emptied = FALSE
    /\ quiesced = FALSE

NextApp ==
    \/ CallExec
    \/ CallExit
    \/ \E obj \in Objs : AddTracked(obj)
    \/ \E obj \in Objs : RemoveTracked(obj)
    \/ \E w \in Wins : OpenWindow(w)
    \/ \E w \in Wins : CloseWindow(w)
    \/ BeginCallback
    \/ EndCallback
    \/ CheckForExit
    \/ ExecReturn

\* ------------------------------------------------------------------ Image

\* The outcome of an expression: the exception it raised, or its value.
raise(exc) == [exc |-> exc, val |-> <<>>]
value(val) == [exc |-> None, val |-> val]

\* The dict d with d[k] = v stored.
dict_set(d, k, v) == [x \in DOMAIN d \cup {k} |-> IF x = k THEN v ELSE d[x]]

\* QImage.loadFromData: the decoded image, or a null image (0 x 0) when the
\* bytes are no image.
loadFromData(data) ==
    CASE data = "png_4x2" -> [width |-> 4, height |-> 2]
      [] data = "png_2x2" -> [width |-> 2, height |-> 2]
      [] OTHER -> [width |-> 0, height |-> 0]

\* A section cut with the centre given as its top-left corner.
section_of_centre(image_coords, image_rect, target_rect, rotation) ==
    [rotation |-> IF rotation # 0 THEN rotation ELSE 0,
     corner2 |-> <<2 * image_coords[1], 2 * image_coords[2]>>,
     cut |-> image_rect,
     size |-> IF image_rect # target_rect THEN target_rect ELSE image_rect,
     ops |-> <<"copy">> \o (IF image_rect # target_rect THEN <<"scaled">> ELSE <<>>)
                       \o (IF rotation # 0 THEN <<"transformed">> ELSE <<>>)]

\* The section get_pixmap cuts, scales and rotates (lines 98-109): twice the
\* top-left corner (image_coords - image_rect / 2 may be a half pixel), the size
\* cut, the size after scaling, the rotation applied and the QImage calls made.
section_of(image_coords, image_rect, target_rect, rotation) ==
    [rotation |-> IF rotation # 0 THEN rotation ELSE 0,
     corner2 |-> <<2 * image_coords[1] - image_rect[1], 2 * image_coords[2] - image_rect[2]>>,
     cut |-> image_rect,
     size |-> IF image_rect # target_rect THEN target_rect ELSE image_rect,
     ops |-> <<"copy">> \o (IF image_rect # target_rect THEN <<"scaled">> ELSE <<>>)
                       \o (IF rotation # 0 THEN <<"transformed">> ELSE <<>>)]

\* A get_pixmap that builds the pixmap anew on every call.
get_pixmap_uncached(ic, pc, n, image, image_coords, image_rect, target_rect, rotation) ==
    LET key == <<image_coords, image_rect, target_rect, rotation>>
        built == [id |-> n + 1, of |-> ic[image],
                  section |-> section_of(image_coords, image_rect, target_rect, rotation)]
    IN IF image \notin DOMAIN ic
       THEN [n |-> n, exc |-> "KeyError", pc |-> pc, ret |-> NoneValue]
       ELSE IF ic[image] = NoneValue THEN [n |-> n, exc |-> None, pc |-> pc, ret |-> NoneValue]
       ELSE [n |-> n + 1, exc |-> None,
             pc |-> dict_set(pc, image, dict_set(pc[image], key, built)), ret |-> built]

\* get_pixmap on the caches ic (_IMAGE_CACHE) and pc (_PIXMAP_CACHE) after n
\* pixmaps were built: the value returned, the pixmap cache and the number of
\* pixmaps built afterwards, and the exception raised: the lookup
\* _IMAGE_CACHE[image] raises KeyError for a handle the dict does not hold.
get_pixmap(ic, pc, n, image, image_coords, image_rect, target_rect, rotation) ==
    LET orig_image == ic[image]
        key == <<image_coords, image_rect, target_rect, rotation>>
        built == [id |-> n + 1, of |-> orig_image,
                  section |-> section_of(image_coords, image_rect, target_rect, rotation)]
    IN IF image \notin DOMAIN ic
       THEN [n |-> n, exc |-> "KeyError", pc |-> pc, ret |-> NoneValue]
       ELSE IF orig_image = NoneValue THEN [n |-> n, exc |-> None, pc |-> pc, ret |-> NoneValue]
       ELSE IF key \in DOMAIN pc[image]
       THEN [n |-> n, exc |-> None, pc |-> pc, ret |-> pc[image][key]]
       ELSE [n |-> n + 1, exc |-> None,
             pc |-> dict_set(pc, image, dict_set(pc[image], key, built)), ret |-> built]

\* Image.__load_image: keeps whatever QImage the bytes gave, opens the handle's
\* pixmap dict and caches the full-size view.
load_image(image, data) ==
    LET qimage == loadFromData(data)
        size == <<qimage.width, qimage.height>>
        centre == <<qimage.width \div 2, qimage.height \div 2>>
        ic == dict_set(IMAGE_CACHE, image, qimage)
        pc == dict_set(PIXMAP_CACHE, image, <<>>)
        got == get_pixmap(ic, pc, npixmaps, image, centre, size, size, 0)
    IN /\ IMAGE_CACHE' = ic
       /\ PIXMAP_CACHE' = got.pc
       /\ npixmaps' = got.n

\* An _on_finished whose reply may finish again.
on_finished_again(image, error, data) ==
    /\ replies' = replies
    /\ IF error = "NoError"
       THEN /\ load_image(image, data)
            /\ img_raised' = None
       ELSE /\ img_raised' = "IOError"
            /\ UNCHANGED <<IMAGE_CACHE, PIXMAP_CACHE, npixmaps>>

\* _on_finished: hand the bytes of a reply without error to the callback,
\* raise IOError for a reply with an error.
on_finished(image, error, data) ==
    /\ replies' = [replies EXCEPT ![image] = "finished"]
    /\ IF error = "NoError"
       THEN /\ load_image(image, data)
            /\ img_raised' = None
       ELSE /\ img_raised' = "IOError"
            /\ UNCHANGED <<IMAGE_CACHE, PIXMAP_CACHE, npixmaps>>

\* Image.get_width and Image.get_height: 0 for a handle stored with no
\* image, else the dimension of the stored QImage; the lookup
\* _IMAGE_CACHE[self] raises KeyError for a handle the dict does not hold.
get_width(image) ==
    IF image \notin DOMAIN IMAGE_CACHE THEN raise("KeyError")
    ELSE IF IMAGE_CACHE[image] = NoneValue THEN value(0)
    ELSE value(IMAGE_CACHE[image].width)

get_height(image) ==
    IF image \notin DOMAIN IMAGE_CACHE THEN raise("KeyError")
    ELSE IF IMAGE_CACHE[image] = NoneValue THEN value(0)
    ELSE value(IMAGE_CACHE[image].height)

\* ----------------------------------------------------------- Python floats

\* A float is an IEEE 754 double: [neg, m, e] stands for (-1)^neg * m * 2^e,
\* where m is 0 or has exactly 53 bits.  m is written in base 2^15, least
\* significant digit first and without leading zeros (0 is <<>>), because the
\* products of the arithmetic below do not fit a 32-bit integer otherwise.
BigBase == 2 ^ 15

RECURSIVE BigNorm(_)
BigNorm(a) ==
    IF a # <<>> /\ a[Len(a)] = 0 THEN BigNorm(SubSeq(a, 1, Len(a) - 1)) ELSE a

RECURSIVE BigOfInt(_)
BigOfInt(n) == IF n = 0 THEN <<>> ELSE <<n % BigBase>> \o BigOfInt(n \div BigBase)

RECURSIVE IntOfBig(_)
IntOfBig(a) == IF a = <<>> THEN 0 ELSE Head(a) + BigBase * IntOfBig(Tail(a))

\* the digit of a at the place i, 0 past the end
BigDigit(a, i) == IF i > Len(a) THEN 0 ELSE a[i]

\* a + b + carry, from the digit i up
RECURSIVE BigAdd(_, _, _, _)
BigAdd(a, b, i, carry) ==
    IF i > Len(a) /\ i > Len(b) THEN (IF carry = 0 THEN <<>> ELSE <<carry>>)
    ELSE <<(BigDigit(a, i) + BigDigit(b, i) + carry) % BigBase>>
             \o BigAdd(a, b, i + 1, (BigDigit(a, i) + BigDigit(b, i) + carry) \div BigBase)

\* a - b - borrow from the digit i up, for a >= b + borrow
RECURSIVE BigSubDigits(_, _, _, _)
BigSubDigits(a, b, i, borrow) ==
    IF i > Len(a) THEN <<>>
    ELSE <<(a[i] - BigDigit(b, i) - borrow) % BigBase>>
             \o BigSubDigits(a, b, i + 1, IF a[i] - BigDigit(b, i) - borrow < 0 THEN 1 ELSE 0)

BigSub(a, b) == BigNorm(BigSubDigits(a, b, 1, 0))

\* a < b, decided at the digit i and the digits below it when the lengths
\* are the same
RECURSIVE BigLessFrom(_, _, _)
BigLessFrom(a, b, i) ==
    IF i = 0 THEN FALSE
    ELSE IF a[i] # b[i] THEN a[i] < b[i]
    ELSE BigLessFrom(a, b, i - 1)

BigLess(a, b) == IF Len(a) # Len(b) THEN Len(a) < Len(b) ELSE BigLessFrom(a, b, Len(a))

\* a * d + carry for a digit d, from the digit i of a up
RECURSIVE BigMulFrom(_, _, _, _)
BigMulFrom(a, d, i, carry) ==
    IF i > Len(a) THEN (IF carry = 0 THEN <<>> ELSE <<carry>>)
    ELSE <<(a[i] * d + carry) % BigBase>> \o BigMulFrom(a, d, i + 1, (a[i] * d + carry) \div BigBase)

BigMulDigit(a, d, carry) == BigMulFrom(a, d, 1, carry)

\* a * b, the digits of b from i up
RECURSIVE BigMulBy(_, _, _)
BigMulBy(a, b, i) ==
    IF i > Len(b) THEN <<>>
    ELSE BigAdd(BigMulDigit(a, b[i], 0), <<0>> \o BigMulBy(a, b, i + 1), 1, 0)

BigMul(a, b) == BigNorm(BigMulBy(a, b, 1))

\* a * 2^k
BigShl(a, k) ==
    IF a = <<>> THEN a
    ELSE [i \in 1..(k \div 15) |-> 0] \o BigMulDigit(a, 2 ^ (k % 15), 0)

\* the quotient of a by the digit d, from the digit i of a down
RECURSIVE BigDivDigit(_, _, _, _)
BigDivDigit(a, d, i, rem) ==
    IF i = 0 THEN <<>>
    ELSE BigDivDigit(a, d, i - 1, (rem * BigBase + a[i]) % d) \o <<(rem * BigBase + a[i]) \div d>>

\* a \div 2^k
BigShr(a, k) ==
    IF Len(a) <= k \div 15 THEN <<>>
    ELSE BigNorm(BigDivDigit(SubSeq(a, k \div 15 + 1, Len(a)), 2 ^ (k % 15),
                             Len(a) - k \div 15, 0))

RECURSIVE BitsOfDigit(_)
BitsOfDigit(d) == IF d = 0 THEN 0 ELSE 1 + BitsOfDigit(d \div 2)

\* the number of bits of a
BigBits(a) == IF a = <<>> THEN 0 ELSE 15 * (Len(a) - 1) + BitsOfDigit(a[Len(a)])

BigBit(a, i) == IF i \div 15 >= Len(a) THEN 0 ELSE (a[i \div 15 + 1] \div 2 ^ (i % 15)) % 2

\* The digit of the quotient of r by b, guessed from the two leading digits
\* of r and the leading digit of b, for r < b * BigBase.  The guess is not
\* too small, and at most 2 too large when the leading digit of b is at least
\* BigBase / 2.
BigQuotGuess(r, b) ==
    IF Len(r) < Len(b) THEN 0
    ELSE IF ((IF Len(r) > Len(b) THEN r[Len(b) + 1] ELSE 0) * BigBase + r[Len(b)])
                \div b[Len(b)] > BigBase - 1
    THEN BigBase - 1
    ELSE ((IF Len(r) > Len(b) THEN r[Len(b) + 1] ELSE 0) * BigBase + r[Len(b)]) \div b[Len(b)]

\* the largest digit t <= d with t * b <= r
RECURSIVE BigQuotDigit(_, _, _)
BigQuotDigit(r, b, d) ==
    IF d > 0 /\ BigLess(r, BigMulDigit(b, d, 0)) THEN BigQuotDigit(r, b, d - 1) ELSE d

\* long division, one digit of a at a time from digit i down, q and r being
\* the quotient and the remainder of the digits above: BigDivMod brings the
\* digit down, BigDivDown finds the digit d of the quotient and BigDivStep
\* puts it below q, which has no leading zeros.
RECURSIVE BigDivMod(_, _, _, _, _)
BigDivStep(a, b, i, q, r, d) ==
    IF d = 0
    THEN BigDivMod(a, b, i - 1, IF q = <<>> THEN q ELSE <<0>> \o q, r)
    ELSE BigDivMod(a, b, i - 1, <<d>> \o q, BigSub(r, BigMulDigit(b, d, 0)))

BigDivDown(a, b, i, q, r) == BigDivStep(a, b, i, q, r, BigQuotDigit(r, b, BigQuotGuess(r, b)))

BigDivMod(a, b, i, q, r) ==
    IF i = 0 THEN [r |-> r, q |-> q]
    ELSE BigDivDown(a, b, i, q, BigNorm(<<a[i]>> \o r))

\* The double (-1)^neg * q * 2^e for q of 53 bits, or of 54 after a carry
float_carried(neg, q, e) ==
    IF BigBits(q) = 54 THEN [neg |-> neg, e |-> e + 1, m |-> BigShr(q, 1)]
    ELSE [neg |-> neg, e |-> e, m |-> q]

\* q of 53 bits and the part r dropped below it, rounded up when r is more
\* than half, or half and q is odd or more was dropped (sticky)
float_rounded(neg, q, r, half, e, sticky) ==
    float_carried(neg, IF BigLess(half, r) \/ (r = half /\ (sticky \/ BigBit(q, 0) = 1))
                       THEN BigAdd(q, <<1>>, 1, 0) ELSE q, e)

\* m cut to the 53 bits q above its s lowest ones
float_cut(neg, m, q, s, e, sticky) ==
    float_rounded(neg, q, BigSub(m, BigShl(q, s)), BigShl(<<1>>, s - 1), e + s, sticky)

\* m of 53 + s bits
float_of_bits(neg, m, s, e, sticky) ==
    IF m = <<>> THEN [neg |-> FALSE, e |-> 0, m |-> <<>>]
    ELSE IF s <= 0 THEN [neg |-> neg, e |-> e + s, m |-> BigShl(m, -s)]
    ELSE float_cut(neg, m, BigShr(m, s), s, e, sticky)

\* The double nearest to (-1)^neg * (m + f) * 2^e, ties to the even one, where
\* 0 <= f < 1 and sticky says that f > 0.
float_round(neg, m, e, sticky) == float_of_bits(neg, m, BigBits(m) - 53, e, sticky)

\* the quotient d.q and the remainder d.r of a division, as a double
float_of_quotient(neg, d, e) == float_round(neg, d.q, e, d.r # <<>>)

\* (numer * 2^s) / denom
float_ratio_shifted(neg, numer, denom, e, s) ==
    float_of_quotient(neg, BigDivMod(numer, denom, Len(numer), <<>>, <<>>), e - s)

\* The double nearest to (-1)^neg * (numer / denom) * 2^e, for denom > 0: the
\* numerator is shifted by s for a quotient of at least 56 bits, whose
\* remainder is the sticky bit, and both by k, which brings the leading digit
\* of the denominator to BigBase / 2 or more.
float_ratio_by(neg, numer, denom, e, s, k) ==
    float_ratio_shifted(neg, BigShl(numer, s + k), BigShl(denom, k), e, s)

float_ratio(neg, numer, denom, e) ==
    float_ratio_by(neg, numer, denom, e,
                   IF BigBits(denom) + 56 > BigBits(numer)
                   THEN BigBits(denom) + 56 - BigBits(numer) ELSE 0,
                   15 - BitsOfDigit(denom[Len(denom)]))

\* float(n) of an int
float_of_int(n) == float_round(n < 0, BigOfInt(IF n < 0 THEN -n ELSE n), 0, FALSE)

\* x * y
float_mul(x, y) == float_round(x.neg # y.neg, BigMul(x.m, y.m), x.e + y.e, FALSE)

\* x / y, for y other than 0
float_truediv(x, y) == float_ratio(x.neg # y.neg, x.m, y.m, x.e - y.e)

\* a * 2^e - b * 2^e with the signs given
float_sub_aligned(xneg, yneg, a, b, e) ==
    float_round(IF xneg # yneg THEN xneg ELSE IF BigLess(a, b) THEN ~xneg ELSE xneg,
                IF xneg # yneg THEN BigAdd(a, b, 1, 0)
                ELSE IF BigLess(a, b) THEN BigSub(b, a) ELSE BigSub(a, b),
                e, FALSE)

\* x - y, both taken to the exponent e
float_sub_at(x, y, e) ==
    float_sub_aligned(x.neg, y.neg, BigShl(x.m, x.e - e), BigShl(y.m, y.e - e), e)

\* x - y
float_sub(x, y) ==
    float_sub_at(x, y, IF x.m = <<>> THEN y.e ELSE IF y.m = <<>> THEN x.e
                       ELSE IF x.e < y.e THEN x.e ELSE y.e)

\* d <= 0
float_not_positive(d) == d.m = <<>> \/ d.neg

\* x <= y
float_le(x, y) == float_not_positive(float_sub(x, y))

\* m * 2^e of a float, the fraction dropped
float_floor_abs(m, e) == IntOfBig(IF e >= 0 THEN BigShl(m, e) ELSE BigShr(m, -e))

\* int(x) of a float: the fraction dropped
float_trunc(x) == (IF x.neg THEN -1 ELSE 1) * float_floor_abs(x.m, x.e)

\* round(x) of a float, halves taken away from zero
float_nearest(x) == (IF x.neg THEN -1 ELSE 1) * ((float_floor_abs(x.m, x.e + 1) + 1) \div 2)

\* The position of the character c in chars from i on, 0 when it is not there.
RECURSIVE index_from(_, _, _)
index_from(c, chars, i) ==
    IF i > Len(chars) THEN 0
    ELSE IF SubSeq(chars, i, i) = c THEN i
    ELSE index_from(c, chars, i + 1)

index(c, chars) == index_from(c, chars, 1)

\* The number the decimal digits of text spell, its "." skipped.
RECURSIVE BigOfDigits(_, _)
BigOfDigits(text, acc) ==
    IF text = "" THEN acc
    ELSE IF SubSeq(text, 1, 1) = "." THEN BigOfDigits(SubSeq(text, 2, Len(text)), acc)
    ELSE BigOfDigits(SubSeq(text, 2, Len(text)),
                     BigMulDigit(acc, 10, index(SubSeq(text, 1, 1), "0123456789") - 1))

RECURSIVE BigPow10(_)
BigPow10(k) == IF k = 0 THEN <<1>> ELSE BigMulDigit(BigPow10(k - 1), 10, 0)

\* the number of digits of text after its ".", which is at dot (0 for none)
decimals(text, dot) == IF dot = 0 THEN 0 ELSE Len(text) - dot

\* float(text) of digits with at most one "." after the first: the double
\* nearest to the decimal number
py_float(text) ==
    float_ratio(FALSE, BigOfDigits(text, <<>>), BigPow10(decimals(text, index(".", text))), 0)

\* math.pi
pi == [neg |-> FALSE, e |-> -51, m |-> <<11544, 10376, 2029, 201>>]

\* ---------------------------------------------------------------- colours

\* c in lower case, i being its place among the capital letters (0 for none)
lower(c, i) == IF i = 0 THEN c ELSE SubSeq("abcdefghijklmnopqrstuvwxyz", i, i)

\* str.lower() of a string of ASCII characters
RECURSIVE str_lower(_)
str_lower(s) ==
    IF s = "" THEN ""
    ELSE lower(SubSeq(s, 1, 1), index(SubSeq(s, 1, 1), "ABCDEFGHIJKLMNOPQRSTUVWXYZ"))
             \o str_lower(SubSeq(s, 2, Len(s)))

\* s.startswith(prefix)
startswith(s, prefix) == Len(s) >= Len(prefix) /\ SubSeq(s, 1, Len(prefix)) = prefix

\* s with the characters of chars taken out
RECURSIVE without(_, _)
without(s, chars) ==
    IF s = "" THEN ""
    ELSE (IF index(SubSeq(s, 1, 1), chars) # 0 THEN "" ELSE SubSeq(s, 1, 1))
             \o without(SubSeq(s, 2, Len(s)), chars)

\* The colour names of Qt: the SVG 1.0 names and "transparent".
QtColourNames ==
    {"aliceblue", "antiquewhite", "aqua", "aquamarine", "azure", "beige", "bisque",
     "black", "blanchedalmond", "blue", "blueviolet", "brown", "burlywood",
     "cadetblue", "chartreuse", "chocolate", "coral", "cornflowerblue", "cornsilk",
     "crimson", "cyan", "darkblue", "darkcyan", "darkgoldenrod", "darkgray",
     "darkgreen", "darkgrey", "darkkhaki", "darkmagenta", "darkolivegreen",
     "darkorange", "darkorchid", "darkred", "darksalmon", "darkseagreen",
     "darkslateblue", "darkslategray", "darkslategrey", "darkturquoise", "darkviolet",
     "deeppink", "deepskyblue", "dimgray", "dimgrey", "dodgerblue", "firebrick",
     "floralwhite", "forestgreen", "fuchsia", "gainsboro", "ghostwhite", "gold",
     "goldenrod", "gray", "green", "greenyellow", "grey", "honeydew", "hotpink",
     "indianred", "indigo", "ivory", "khaki", "lavender", "lavenderblush", "lawngreen",
     "lemonchiffon", "lightblue", "lightcoral", "lightcyan", "lightgoldenrodyellow",
     "lightgray", "lightgreen", "lightgrey", "lightpink", "lightsalmon",
     "lightseagreen", "lightskyblue", "lightslategray", "lightslategrey",
     "lightsteelblue", "lightyellow", "lime", "limegreen", "linen", "magenta",
     "maroon", "mediumaquamarine", "mediumblue", "mediumorchid", "mediumpurple",
     "mediumseagreen", "mediumslateblue", "mediumspringgreen", "mediumturquoise",
     "mediumvioletred", "midnightblue", "mintcream", "mistyrose", "moccasin",
     "navajowhite", "navy", "oldlace", "olive", "olivedrab", "orange", "orangered",
     "orchid", "palegoldenrod", "palegreen", "paleturquoise", "palevioletred",
     "papayawhip", "peachpuff", "peru", "pink", "plum", "powderblue", "purple", "red",
     "rosybrown", "royalblue", "saddlebrown", "salmon", "sandybrown", "seagreen",
     "seashell", "sienna", "silver", "skyblue", "slateblue", "slategray", "slategrey",
     "snow", "springgreen", "steelblue", "tan", "teal", "thistle", "tomato",
     "transparent", "turquoise", "violet", "wheat", "white", "whitesmoke", "yellow",
     "yellowgreen"}

\* QColor.isValidColor(name): no empty string; after "#", 3, 6, 8, 9 or 12
\* hexadecimal digits; else a colour name, looked up with its spaces and tabs
\* dropped and without regard to case.
isValidColor(name) ==
    IF name = "" THEN FALSE
    ELSE IF SubSeq(name, 1, 1) = "#"
    THEN /\ Len(name) - 1 \in {3, 6, 8, 9, 12}
         /\ \A i \in 2..Len(name) : index(SubSeq(name, i, i), "0123456789abcdefABCDEF") # 0
    ELSE Len(name) <= 255 /\ str_lower(without(name, " \t")) \in QtColourNames

\* QColor(name) of a valid name.  The colour is kept as the string that
\* decides it: the digits or the name, in lower case, spaces and tabs dropped.
QColor(name) == [name |-> str_lower(without(name, " \t"))]

\* The end of the run of digits of s that begins at i.
RECURSIVE digits_end(_, _)
digits_end(s, i) ==
    IF i <= Len(s) /\ index(SubSeq(s, i, i), "0123456789") # 0 THEN digits_end(s, i + 1) ELSE i

\* The end of the match of NUM_RE whose first run of digits ends before j.
number_end(s, j) == IF j <= Len(s) /\ SubSeq(s, j, j) = "." THEN digits_end(s, j + 1) ELSE j

\* NUM_RE.findall(s[i - 1:]) for NUM_RE = (\d+\.?\d*): the matches from left to
\* right, each a run of digits, a "." if one follows, and the digits after it.
\* NUM_RE_match is the match from i to before k and those after it.
RECURSIVE NUM_RE_findall(_, _)
NUM_RE_match(s, i, k) == <<SubSeq(s, i, k - 1)>> \o NUM_RE_findall(s, k)

NUM_RE_findall(s, i) ==
    IF i > Len(s) THEN <<>>
    ELSE IF index(SubSeq(s, i, i), "0123456789") = 0 THEN NUM_RE_findall(s, i + 1)
    ELSE NUM_RE_match(s, i, number_end(s, digits_end(s, i)))

\* ColourTypes: the conversion factors and the QColor factory of each format
ColourTypes ==
    [RGB |-> [factors |-> <<255, 255, 255, 1>>, func |-> "fromRgbF"],
     RGB_PCT |-> [factors |-> <<100, 100, 100, 1>>, func |-> "fromRgbF"],
     HSL |-> [factors |-> <<360, 100, 100, 1>>, func |-> "fromHslF"]]

\* [float(x) / fact for x, fact in zip(numbers, factors)]: zip stops at the
\* shorter list.
zip_divide(numbers, factors) ==
    [i \in 1..(IF Len(numbers) < Len(factors) THEN Len(numbers) ELSE Len(factors)) |->
        float_truediv(py_float(numbers[i]), float_of_int(factors[i]))]

\* The two checks of _get_float_colour_values: ValueError for fewer than
\* three numbers and for a number outside 0.0 .. 1.0.
checked_colour_values(numbers) ==
    IF Len(numbers) < 3 THEN raise("ValueError")
    ELSE IF \E i \in 1..Len(numbers) : ~(/\ float_le(float_of_int(0), numbers[i])
                                         /\ float_le(numbers[i], float_of_int(1)))
    THEN raise("ValueError")
    ELSE value(numbers)

\* _get_float_colour_values: the numbers of the string, each divided by its
\* factor, then checked.
get_float_colour_values(text, factors) ==
    checked_colour_values(zip_divide(NUM_RE_findall(text, 1), factors))

\* func(*numbers), unless _get_float_colour_values raised
colour_of_values(numbers, func) ==
    IF numbers.exc # None THEN raise(numbers.exc)
    ELSE value([args |-> numbers.val, func |-> func])

\* _convert_colour_string
convert_colour_string(name, colour_type) ==
    colour_of_values(get_float_colour_values(name, ColourTypes[colour_type].factors),
                     ColourTypes[colour_type].func)

\* The branches of get_colour for a string COLOUR_MAP does not hold.
convert_colour(name) ==
    IF isValidColor(name) THEN value(QColor(name))
    ELSE IF startswith(str_lower(name), "rgb")
    THEN convert_colour_string(name, IF index("%", name) # 0 THEN "RGB_PCT" ELSE "RGB")
    ELSE IF startswith(str_lower(name), "hsl") THEN convert_colour_string(name, "HSL")
    ELSE raise("ValueError")

\* COLOUR_MAP as the module leaves it at import: the colours of the names
\* the CodeSkulptor documentation lists.
COLOUR_MAP ==
    LET names == {"Aqua", "Black", "Blue", "Fuchsia", "Gray", "Green", "Lime", "Maroon",
                  "Navy", "Olive", "Orange", "Purple", "Red", "Silver", "Teal", "White",
                  "Yellow"}
    IN [name \in names |-> QColor(name)]

\* get_colour(name): TypeError for a value that is not a str, the colour
\* COLOUR_MAP holds for the string, else the colour the string converts to, or
\* the ValueError the conversion raises.  The code stores every colour it
\* converts in COLOUR_MAP; a string converts to the same colour each time,
\* so the stored colour is the one computed here.
get_colour(name) ==
    IF name.t # "str" THEN raise("TypeError")
    ELSE IF name.s \in DOMAIN COLOUR_MAP THEN value(COLOUR_MAP[name.s])
    ELSE convert_colour(name.s)

\* ------------------------------------------------------------------ fonts

\* FontFace: the values of the enum
FontFace == {"serif", "sans-serif", "monospace"}

\* get_font(FontSpec(size, face)): ValueError for a size that is not
\* positive (_check_is_valid_font) and for a face FontFace does not have.
get_font(size, face) ==
    IF size <= 0 THEN raise("ValueError")
    ELSE IF face \notin FontFace THEN raise("ValueError")
    ELSE value([face |-> face, pixelSize |-> size])

\* ----------------------------------------------------------------- Canvas

\* int(x): a number truncated towards zero; TypeError for a tuple or list.
py_int(x) ==
    IF x.t # "num" THEN raise("TypeError")
    ELSE value(IF x.v >= 0 THEN x.v \div 10 ELSE -((-x.v) \div 10))

\* x[i], i counted from 0: TypeError for a number, IndexError past the end.
py_item(x, i) ==
    IF x.t # "seq" THEN raise("TypeError")
    ELSE IF i >= Len(x.items) THEN raise("IndexError")
    ELSE value(x.items[i + 1])

\* new_coord = (int(coord[0]), int(coord[1]))
new_coord(coord) ==
    LET c0 == py_item(coord, 0)
        i0 == py_int(c0.val)
        c1 == py_item(coord, 1)
        i1 == py_int(c1.val)
    IN IF c0.exc # None THEN raise(c0.exc)
       ELSE IF i0.exc # None THEN raise(i0.exc)
       ELSE IF c1.exc # None THEN raise(c1.exc)
       ELSE IF i1.exc # None THEN raise(i1.exc)
       ELSE value(<<i0.val, i1.val>>)

\* The result list of a conversion loop: the first exception raised, else
\* res[0] for one argument and res for several.
loop_result(res) ==
    LET bad == {i \in 1..Len(res) : res[i].exc # None}
    IN IF bad # {} THEN raise(res[CHOOSE i \in bad : \A j \in bad : i <= j].exc)
       ELSE IF Len(res) = 1 THEN value(res[1].val)
       ELSE value([i \in 1..Len(res) |-> res[i].val])

\* Canvas.__ensure_int_coords(*coords)
ensure_int_coords(coords) ==
    loop_result([i \in 1..Len(coords) |-> new_coord(coords[i])])

\* Canvas.__ensure_int_values(*values)
ensure_int_values(values) ==
    loop_result([i \in 1..Len(values) |-> py_int(values[i])])

\* The drawing calls of the Canvas: the conversions in source order, then the
\* ObjectHolder handed to add_object.

draw_text(text, pt, font_size, font_color, font_face) ==
    LET p == ensure_int_coords(<<pt>>)
        s == ensure_int_values(<<font_size>>)
    IN IF p.exc # None THEN raise(p.exc)
       ELSE IF s.exc # None THEN raise(s.exc)
       ELSE value(ObjectHolder("Text", <<text, p.val, s.val, font_color, font_face>>))

draw_line(point1, point2, line_width, line_color) ==
    LET p == ensure_int_coords(<<point1, point2>>)
        w == ensure_int_values(<<line_width>>)
    IN IF p.exc # None THEN raise(p.exc)
       ELSE IF w.exc # None THEN raise(w.exc)
       ELSE value(ObjectHolder("Line", <<p.val[1], p.val[2], w.val, line_color>>))

draw_polyline(point_list, line_width, line_color) ==
    LET p == ensure_int_coords(<<point_list>>)
        w == ensure_int_values(<<line_width>>)
    IN IF p.exc # None THEN raise(p.exc)
       ELSE IF w.exc # None THEN raise(w.exc)
       ELSE value(ObjectHolder("Polyline", <<p.val, w.val, line_color>>))

draw_polygon(point_list, line_width, line_color, fill_color) ==
    LET p == ensure_int_coords(<<point_list>>)
        w == ensure_int_values(<<line_width>>)
    IN IF p.exc # None THEN raise(p.exc)
       ELSE IF w.exc # None THEN raise(w.exc)
       ELSE value(ObjectHolder("Polygon", <<p.val, w.val, line_color, fill_color>>))

draw_circle(center_point, radius, line_width, line_color, fill_color) ==
    LET p == ensure_int_coords(<<center_point>>)
        v == ensure_int_values(<<radius, line_width>>)
    IN IF p.exc # None THEN raise(p.exc)
       ELSE IF v.exc # None THEN raise(v.exc)
       ELSE value(ObjectHolder("Circle", <<p.val, v.val[1], v.val[2], line_color, fill_color>>))

draw_arc(center_point, radius, start_angle, end_angle, line_width, line_color, fill_color) ==
    LET p == ensure_int_coords(<<center_point>>)
        v == ensure_int_values(<<radius, line_width>>)
    IN IF p.exc # None THEN raise(p.exc)
       ELSE IF v.exc # None THEN raise(v.exc)
       ELSE value(ObjectHolder("Arc", <<p.val, v.val[1], start_angle, end_angle, v.val[2],
                                        line_color, fill_color>>))

draw_point(pt, color) ==
    LET p == ensure_int_coords(<<pt>>)
    IN IF p.exc # None THEN raise(p.exc)
       ELSE value(ObjectHolder("Point", <<p.val, color>>))

\* Canvas.draw_image: returns at once, with nothing to record (val = <<>>), for
\* an image whose height or width is 0; what get_height raises escapes.
draw_image(image, center_source, width_height_source, center_dest, width_height_dest, rotation) ==
    LET p == ensure_int_coords(<<center_source, width_height_source, center_dest, width_height_dest>>)
        height == get_height(image)
        width == get_width(image)
    IN IF height.exc # None THEN raise(height.exc)
       ELSE IF height.val = 0 \/ width.val = 0 THEN value(<<>>)
       ELSE IF p.exc # None THEN raise(p.exc)
       ELSE value(ObjectHolder("Image", <<image, p.val[1], p.val[2], p.val[3], p.val[4], rotation>>))

\* ----------------------------------------------------------------- painter

\* QBrush() and QBrush(colour), and QPen(brush, width)
NoBrush == [style |-> "NoBrush"]
QBrush(colour) == [style |-> "SolidPattern", colour |-> colour]
QPen(brush, width) == [width |-> width, brush |-> brush]

\* The pen of a new QPainter: black, of width 1.
DefaultPen == QPen(QBrush(QColor("black")), 1)

\* QPainter(pixmap): a painter in the state Qt gives a new one (a black pen
\* of width 1, no brush, the default font, no transform) with no state saved.
\* calls is the log of the drawing calls made on it, each with the brush it
\* was made with; pc and n are _PIXMAP_CACHE and the number of pixmaps built,
\* which render_image reads and writes through get_pixmap.
QPainter(pc, n) ==
    [n |-> n, pc |-> pc,
     brush |-> NoBrush, pen |-> DefaultPen,
     font |-> [family |-> "default"], transform |-> <<>>, saved |-> <<>>, calls |-> <<>>]

\* QPainter.save: pushes the state on the painter's stack.
save(painter) ==
    [painter EXCEPT !.saved = <<[brush |-> painter.brush, pen |-> painter.pen,
                                 font |-> painter.font,
                                 transform |-> painter.transform]>> \o @]

\* QPainter.restore: pops the state saved last; with nothing saved Qt warns
\* of an unbalanced save/restore and leaves the painter as it is.
restore(painter) ==
    IF painter.saved = <<>> THEN painter
    ELSE LET state == Head(painter.saved)
         IN [painter EXCEPT !.pen = state.pen, !.brush = state.brush,
                            !.font = state.font, !.transform = state.transform,
                            !.saved = Tail(@)]

\* A drawing call on the painter: draw<fn>(*args).
paint(painter, fn, args) ==
    [painter EXCEPT !.calls = Append(@, [args |-> args, brush |-> painter.brush, fn |-> fn])]

\* The outcome of a renderer or of a step of one: the exception raised, if
\* any, and the painter as it is left.
raised(exc, painter) == [exc |-> exc, painter |-> painter]
returned(painter) == [exc |-> None, painter |-> painter]

\* radians_to_qpainter_angle: int(360 * 16 * rads / (2 * pi)), the product
\* and the quotient taken in floats and the fraction dropped by int().
radians_to_qpainter_angle_rounded(rads) ==
    float_nearest(float_truediv(float_mul(float_of_int(360 * 16), rads),
                                float_mul(float_of_int(2), pi)))

radians_to_qpainter_angle(rads) ==
    float_trunc(float_truediv(float_mul(float_of_int(360 * 16), rads),
                              float_mul(float_of_int(2), pi)))

\* point_list_to_polygon(point_list): a QPolygon of QPoint(*point) for every
\* item of the list.  The only lists draw_polyline and draw_polygon store are
\* the pairs of integers new_coord returns, and QPoint(*point) of an integer
\* raises TypeError.
point_list_to_polygon(point_list) ==
    IF point_list = <<>> THEN value(<<>>) ELSE raise("TypeError")

\* painter.setPen(QPen(QBrush(colour), line_width)) for the outcome colour of
\* get_colour, whose exception escapes
set_pen(painter, colour, line_width) ==
    IF colour.exc # None THEN raised(colour.exc, painter)
    ELSE returned([painter EXCEPT !.pen = QPen(QBrush(colour.val), line_width)])

\* set_painter_line_width_and_colour
set_painter_line_width_and_colour(painter, line_width, line_colour) ==
    set_pen(painter, get_colour(line_colour), line_width)

\* painter.setBrush(QBrush(colour)) for the outcome colour of get_colour
set_brush(painter, colour) ==
    IF colour.exc # None THEN raised(colour.exc, painter)
    ELSE returned([painter EXCEPT !.brush = QBrush(colour.val)])

\* set_painter_fill_colour
set_painter_fill_colour(painter, fill_colour) ==
    set_brush(painter, get_colour(fill_colour))

\* The second half of set_painter_lines_and_fill, lines being the outcome of
\* the first: the brush when there is a fill colour; without one it is left
\* as it is.
set_fill_after(lines, fill_colour) ==
    IF lines.exc # None THEN lines
    ELSE IF fill_colour # NoneValue THEN set_painter_fill_colour(lines.painter, fill_colour)
    ELSE lines

\* set_painter_lines_and_fill: the pen, then the brush
set_painter_lines_and_fill(painter, line_width, line_colour, fill_colour) ==
    set_fill_after(set_painter_line_width_and_colour(painter, line_width, line_colour),
                   fill_colour)

\* The drawing call that ends a renderer, ready being the outcome of setting
\* the painter up: nothing is drawn when that raised.
draw_after(ready, fn, args) ==
    IF ready.exc # None THEN ready
    ELSE returned(paint(ready.painter, fn, args))

render_line(painter, line_start, line_end, line_width, line_colour) ==
    draw_after(set_painter_line_width_and_colour(painter, line_width, line_colour),
               "drawLine", line_start \o line_end)

\* get_circle_rect: (top_left_x, top_left_y, width, height)
get_circle_rect(center_point, radius) ==
    <<center_point[1] - radius, center_point[2] - radius, radius * 2, radius * 2>>

\* render_arc: arc_len is the converted difference of the two floats and
\* native_start the converted start, both taken before the painter is set
\* up; drawArc(*rect, native_start, -arc_len), or drawPie when there is a
\* fill colour.
render_arc(painter, center_point, radius, start_angle, end_angle, line_width, line_colour, fill_colour) ==
    draw_after(set_painter_lines_and_fill(painter, line_width, line_colour, fill_colour),
               IF fill_colour = NoneValue THEN "drawArc" ELSE "drawPie",
               get_circle_rect(center_point, radius)
                   \o <<radians_to_qpainter_angle(start_angle),
                        -radians_to_qpainter_angle(float_sub(end_angle, start_angle))>>)

render_circle(painter, center_point, radius, line_width, line_colour, fill_colour) ==
    draw_after(set_painter_lines_and_fill(painter, line_width, line_colour, fill_colour),
               "drawEllipse", get_circle_rect(center_point, radius))

render_point(painter, pt, colour) ==
    draw_after(set_painter_line_width_and_colour(painter, 1, colour), "drawPoint", pt)

\* The end of render_polyline and render_polygon: the painter is set up, then
\* point_list_to_polygon is called, whose exception escapes.
draw_polygon_after(ready, point_list, fn) ==
    LET polygon == point_list_to_polygon(point_list)
    IN IF ready.exc # None THEN ready
       ELSE IF polygon.exc # None THEN raised(polygon.exc, ready.painter)
       ELSE returned(paint(ready.painter, fn, <<polygon.val>>))

render_polyline(painter, point_list, line_width, line_colour) ==
    draw_polygon_after(set_painter_line_width_and_colour(painter, line_width, line_colour),
                       point_list, "drawPolyline")

render_polygon(painter, point_list, line_width, line_colour, fill_colour) ==
    draw_polygon_after(set_painter_lines_and_fill(painter, line_width, line_colour,
                                                  fill_colour),
                       point_list, "drawPolygon")

\* The end of render_text: the pen is set, then get_font is called, whose
\* ValueError escapes; painter.setFont(font) and drawText(*point, text).
draw_text_after(ready, font_size, font_face, args) ==
    LET font == get_font(font_size, font_face)
    IN IF ready.exc # None THEN ready
       ELSE IF font.exc # None THEN raised(font.exc, ready.painter)
       ELSE returned(paint([ready.painter EXCEPT !.font = font.val], "drawText", args))

\* render_text: a pen of width 1, then the font
render_text(painter, text, pt, font_size, font_colour, font_face) ==
    draw_text_after(set_painter_line_width_and_colour(painter, 1, font_colour),
                    font_size, font_face, pt \o <<text>>)

\* The end of render_image, got being the outcome of get_pixmap: nothing is
\* drawn when that is None; for a rotation that is not 0 the painter is
\* saved, turned about canvas_center and restored after the call.  The
\* corner handed to drawPixmap is canvas_center - canvas_size / 2., kept
\* doubled here since it may end in .5.
draw_pixmap_after(painter, got, canvas_center, canvas_size, rotation) ==
    LET held == [painter EXCEPT !.pc = got.pc, !.n = got.n]
        rotated == rotation.v # 0
        turned == IF rotated
                  THEN [save(held) EXCEPT !.transform = <<[translate |-> canvas_center],
                                                          [rotateRadians |-> rotation]>>]
                  ELSE held
        centre == IF rotated THEN <<0, 0>> ELSE canvas_center
        drawn == paint(turned, "drawPixmap",
                       <<2 * centre[1] - canvas_size[1], 2 * centre[2] - canvas_size[2],
                         got.ret>>)
    IN IF got.exc # None THEN raised(got.exc, painter)
       ELSE IF got.ret = NoneValue THEN returned(held)
       ELSE returned(IF rotated THEN restore(drawn) ELSE drawn)

\* render_image: the view from get_pixmap (with its default rotation, 0)
render_image(painter, image, source_centre, source_window, canvas_center, canvas_size, rotation) ==
    draw_pixmap_after(painter,
                      get_pixmap(IMAGE_CACHE, painter.pc, painter.n, image, source_centre,
                                 source_window, canvas_size, 0),
                      canvas_center, canvas_size, rotation)

\* OBJECT_RENDERERS[obj.obj_type](painter, *obj.args)
OBJECT_RENDERERS(painter, obj) ==
    LET a == obj.args
    IN CASE obj.obj_type = "Line" -> render_line(painter, a[1], a[2], a[3], a[4])
         [] obj.obj_type = "Arc" ->
                render_arc(painter, a[1], a[2], a[3], a[4], a[5], a[6], a[7])
         [] obj.obj_type = "Circle" -> render_circle(painter, a[1], a[2], a[3], a[4], a[5])
         [] obj.obj_type = "Point" -> render_point(painter, a[1], a[2])
         [] obj.obj_type = "Polyline" -> render_polyline(painter, a[1], a[2], a[3])
         [] obj.obj_type = "Polygon" -> render_polygon(painter, a[1], a[2], a[3], a[4])
         [] obj.obj_type = "Text" -> render_text(painter, a[1], a[2], a[3], a[4], a[5])
         [] obj.obj_type = "Image" ->
                render_image(painter, a[1], a[2], a[3], a[4], a[5], a[6])

\* --------------------------------------------------------------- DrawingArea

\* The draw call c of a script, made on the Canvas.
canvas_call(c) ==
    LET a == c.args
    IN CASE c.call = "draw_text" -> draw_text(a[1], a[2], a[3], a[4], a[5])
         [] c.call = "draw_line" -> draw_line(a[1], a[2], a[3], a[4])
         [] c.call = "draw_polyline" -> draw_polyline(a[1], a[2], a[3])
         [] c.call = "draw_polygon" -> draw_polygon(a[1], a[2], a[3], a[4])
         [] c.call = "draw_circle" -> draw_circle(a[1], a[2], a[3], a[4], a[5])
         [] c.call = "draw_arc" -> draw_arc(a[1], a[2], a[3], a[4], a[5], a[6], a[7])
         [] c.call = "draw_point" -> draw_point(a[1], a[2])
         [] c.call = "draw_image" -> draw_image(a[1], a[2], a[3], a[4], a[5], a[6])

\* The draw callback run by __draw: its draw calls in order, each appending
\* its primitive with add_object, up to the first one that raises.
\* draw_handler_next goes on after a call whose outcome is r.
RECURSIVE draw_handler_run(_, _)
draw_handler_next(calls, r, recorded) ==
    IF r.exc # None THEN [exc |-> r.exc, rec |-> recorded]
    ELSE draw_handler_run(Tail(calls), IF r.val = <<>> THEN recorded
                                       ELSE Append(recorded, r.val))

draw_handler_run(calls, recorded) ==
    IF calls = <<>> THEN [exc |-> None, rec |-> recorded]
    ELSE draw_handler_next(calls, canvas_call(Head(calls)), recorded)

\* A loop of __render that takes the stored primitives last to first.
RECURSIVE render_objects_reversed(_, _, _)
render_next_reversed(objs, r, done) ==
    IF r.exc # None THEN [exc |-> r.exc, painter |-> r.painter, done |-> done]
    ELSE render_objects_reversed(SubSeq(objs, 1, Len(objs) - 1), r.painter,
                                 Append(done, objs[Len(objs)]))

render_objects_reversed(objs, painter, done) ==
    IF objs = <<>> THEN [exc |-> None, painter |-> painter, done |-> done]
    ELSE render_next_reversed(objs, OBJECT_RENDERERS(restore(painter), objs[Len(objs)]), done)

\* The loop of __render over the primitives objs: painter.restore() and then
\* the renderer of each, in list order.  The exception of a renderer ends the
\* loop; done holds the primitives whose renderer returned.  render_next goes
\* on after the renderer of the first primitive, whose outcome is r.
RECURSIVE render_objects(_, _, _)
render_next(objs, r, done) ==
    IF r.exc # None THEN [exc |-> r.exc, painter |-> r.painter, done |-> done]
    ELSE render_objects(Tail(objs), r.painter, Append(done, Head(objs)))

render_objects(objs, painter, done) ==
    IF objs = <<>> THEN [exc |-> None, painter |-> painter, done |-> done]
    ELSE render_next(objs, OBJECT_RENDERERS(restore(painter), Head(objs)), done)

\* What __render leaves after the loop, whose outcome is run: the pixmap with
\* the background and what was painted before an exception, which escapes.
rendered(run, bg) ==
    LET calls == run.painter.calls
    IN /\ pixmap' = [bg |-> bg, prims |-> run.done]
       /\ painted' = <<[args |-> <<bg>>, fn |-> "fill"]>>
                         \o [i \in 1..Len(calls) |-> [args |-> calls[i].args, fn |-> calls[i].fn]]
       /\ brushes' = [i \in 1..Len(calls) |-> calls[i].brush]
       /\ render_raised' = run.exc
       /\ PIXMAP_CACHE' = run.painter.pc
       /\ npixmaps' = run.painter.n

\* DrawingArea.__render: a fresh pixmap filled with the background, a painter
\* on it whose state is saved once, then the loop over the stored primitives.
render(objs, bg) ==
    rendered(render_objects(objs, save(QPainter(PIXMAP_CACHE, npixmaps)), <<>>), bg)

\* A __draw that compares the two lists by identity.
draw_compare_identity(rec, raises) ==
    IF ~started \/ draw_handler = None
    THEN UNCHANGED <<objects, new_objects, aliased, tick_renders, ncalls, renderVars>>
         /\ tick_raised' = FALSE
    ELSE /\ new_objects' = rec
         /\ ncalls' = ncalls + 1
         /\ tick_raised' = raises
         /\ IF raises
            THEN /\ aliased' = FALSE
                 /\ UNCHANGED <<objects, tick_renders, renderVars>>
            ELSE /\ objects' = rec
                 /\ aliased' = TRUE
                 /\ render(rec, background)
                 /\ tick_renders' = tick_renders + 1

\* A __draw that compares the lengths of the two lists.
draw_compare_length(rec, raises) ==
    IF ~started \/ draw_handler = None
    THEN UNCHANGED <<objects, new_objects, aliased, tick_renders, ncalls, renderVars>>
         /\ tick_raised' = FALSE
    ELSE /\ new_objects' = rec
         /\ ncalls' = ncalls + 1
         /\ tick_raised' = raises
         /\ IF ~raises /\ Len(rec) # Len(objects)
            THEN /\ objects' = rec
                 /\ aliased' = TRUE
                 /\ render(rec, background)
                 /\ tick_renders' = tick_renders + 1
            ELSE /\ aliased' = FALSE
                 /\ UNCHANGED <<objects, tick_renders, renderVars>>

\* A __draw without the check_started decorator.
draw_unchecked(rec, raises) ==
    IF draw_handler = None
    THEN UNCHANGED <<objects, new_objects, aliased, tick_renders, ncalls, renderVars>>
         /\ tick_raised' = FALSE
    ELSE /\ new_objects' = rec
         /\ ncalls' = ncalls + 1
         /\ tick_raised' = raises
         /\ IF ~raises /\ rec # objects
            THEN /\ objects' = rec
                 /\ aliased' = TRUE
                 /\ render(rec, background)
                 /\ tick_renders' = tick_renders + 1
            ELSE /\ aliased' = FALSE
                 /\ UNCHANGED <<objects, tick_renders, renderVars>>

\* A __draw that stores and renders the recording in a finally clause, also
\* when the callback raised.
draw_commit_on_raise(rec, raises) ==
    IF ~started \/ draw_handler = None
    THEN UNCHANGED <<objects, new_objects, aliased, tick_renders, ncalls, renderVars>>
         /\ tick_raised' = FALSE
    ELSE /\ new_objects' = rec
         /\ ncalls' = ncalls + 1
         /\ tick_raised' = raises
         /\ IF rec # objects
            THEN /\ objects' = rec
                 /\ aliased' = TRUE
                 /\ render(rec, background)
                 /\ tick_renders' = tick_renders + 1
            ELSE /\ aliased' = FALSE
                 /\ UNCHANGED <<objects, tick_renders, renderVars>>

\* DrawingArea.__draw (with check_started).  rec is what the callback's draw
\* calls append to the fresh __new_objects; raises says that the callback
\* then raised, which __draw does not catch.
draw(rec, raises) ==
    IF ~started \/ draw_handler = None
    THEN UNCHANGED <<objects, new_objects, aliased, tick_renders, ncalls, renderVars>>
         /\ tick_raised' = FALSE
    ELSE /\ new_objects' = rec
         /\ ncalls' = ncalls + 1
         /\ tick_raised' = raises
         /\ IF ~raises /\ rec # objects
            THEN /\ objects' = rec
                 /\ aliased' = TRUE
                 /\ render(rec, background)
                 /\ tick_renders' = tick_renders + 1
            ELSE /\ aliased' = FALSE
                 /\ UNCHANGED <<objects, tick_renders, renderVars>>

\* DrawingArea.set_draw_handler.  id is the id startTimer hands out, one that
\* no active timer of the widget holds.
set_draw_handler(h, id) ==
    LET alive == IF draw_handler # None THEN timers \ {draw_timer_id} ELSE timers
    IN /\ draw_handler' = h
       /\ IF started
          THEN /\ id \notin alive
               /\ draw_timer_id' = id
               /\ timers' = alive \cup {id}
          ELSE /\ draw_timer_id' = draw_timer_id
               /\ timers' = alive

\* DrawingArea.start
start(id) ==
    /\ started' = TRUE
    /\ IF draw_handler # None
       THEN LET alive == timers \ {draw_timer_id}
            IN /\ id \notin alive
               /\ draw_timer_id' = id
               /\ timers' = alive \cup {id}
               /\ draw_handler' = draw_handler
       ELSE UNCHANGED <<draw_handler, draw_timer_id, timers>>

\* A timerEvent that draws on the event of any timer.
timerEvent_any_id(id, rec, raises) ==
    draw(rec, raises)

\* DrawingArea.timerEvent: the event of the draw timer calls __draw, any
\* other is passed on to QWidget.timerEvent.
timerEvent(id, rec, raises) ==
    IF id = draw_timer_id
    THEN draw(rec, raises)
    ELSE UNCHANGED <<objects, new_objects, aliased, tick_renders, ncalls, tick_raised,
                     renderVars>>

\* DrawingArea.add_object
add_object(primitive) ==
    /\ new_objects' = Append(new_objects, primitive)
    /\ objects' = IF aliased THEN Append(objects, primitive) ELSE objects

\* ---------------------------------------------------------- surface actions

\* The history a call of __draw leaves.
TickHistory(rec, raises) ==
    /\ nticks' = nticks + 1
    /\ ndiff' = IF started /\ draw_handler # None /\ ~raises /\ rec # objects
                THEN ndiff + 1 ELSE ndiff

SetDrawHandler(h, id) ==
    /\ set_draw_handler(h, id)
    /\ UNCHANGED <<started, objects, new_objects, aliased, background, tick_renders,
                   ncalls, tick_raised, nticks, ndiff, renderVars>>
    /\ UNCHANGED nonDrawVars

Start(id) ==
    /\ start(id)
    /\ UNCHANGED <<objects, new_objects, aliased, background, tick_renders, ncalls,
                   tick_raised, nticks, ndiff, renderVars>>
    /\ UNCHANGED nonDrawVars

\* DrawingArea.timerEvent: Qt delivers the event of an active timer
TimerEvent(id, rec, raises) ==
    /\ id \in timers
    /\ nticks < MaxTicks
    /\ timerEvent(id, rec, raises)
    /\ IF id = draw_timer_id
       THEN TickHistory(rec, raises)
       ELSE /\ rec = <<>> /\ ~raises
            /\ UNCHANGED <<nticks, ndiff>>
    /\ UNCHANGED <<started, draw_handler, draw_timer_id, timers, background>>
    /\ UNCHANGED nonDrawVars

\* __draw called directly, as the test suite does
CallDraw(rec, raises) ==
    /\ nticks < MaxTicks
    /\ draw(rec, raises)
    /\ TickHistory(rec, raises)
    /\ UNCHANGED <<started, draw_handler, draw_timer_id, timers, background>>
    /\ UNCHANGED nonDrawVars

\* a draw call on the retained Canvas made outside the draw callback
DrawOutside(primitive) ==
    /\ Len(new_objects) < MaxLen
    /\ add_object(primitive)
    /\ UNCHANGED <<started, draw_handler, draw_timer_id, timers, aliased, background,
                   tick_renders, ncalls, tick_raised, nticks, ndiff, renderVars>>
    /\ UNCHANGED nonDrawVars

\* DrawingArea.set_background_colour, called on the surface or by
\* DrawingAreaContainer.set_background_colour for a colour other than the
\* one the container holds: the colour is stored, whether or not it is the
\* one the surface has, then __render repaints the stored list.
SetBackgroundColour(colour) ==
    /\ background' = colour
    /\ render(objects, colour)
    /\ UNCHANGED <<started, draw_handler, draw_timer_id, timers, objects, new_objects,
                   aliased, tick_renders, ncalls, tick_raised, nticks, ndiff>>
    /\ UNCHANGED nonDrawVars

InitDraw ==
    /\ started = FALSE
    /\ draw_handler = None
    /\ draw_timer_id = -1
    /\ timers = {}
    /\ objects = <<>>
    /\ new_objects = <<>>
    /\ aliased = FALSE
    /\ background = "black"
    /\ pixmap = [bg |-> "black", prims |-> <<>>]
    /\ tick_renders = 0
    /\ ncalls = 0
    /\ tick_raised = FALSE
    /\ painted = <<>>
    /\ brushes = <<>>
    /\ render_raised = None
    /\ nticks = 0
    /\ ndiff = 0

NextDraw ==
    \/ \E h \in Handlers \cup {None}, id \in TimerIds : SetDrawHandler(h, id)
    \/ \E id \in TimerIds : Start(id)
    \/ \E id \in TimerIds, rec \in Recordings, raises \in BOOLEAN : TimerEvent(id, rec, raises)
    \/ \E rec \in Recordings, raises \in BOOLEAN : CallDraw(rec, raises)
    \/ \E primitive \in Prims : DrawOutside(primitive)
    \/ \E colour \in Colours : SetBackgroundColour(colour)

\* ------------------------------------------------- DrawingArea input events

\* Signal.disconnect() with no argument drops every connection of the signal
\* (the RuntimeError it raises when there is none is swallowed).
disconnect(conns, signal) == [conns EXCEPT ![signal] = <<>>]

\* Signal.connect appends a connection; Qt invokes the slots of a signal in the
\* order they were connected.
connect(conns, signal, handler) == [conns EXCEPT ![signal] = Append(@, handler)]

\* for handler in handlers: signal.connect(handler)
RECURSIVE connect_each(_, _, _)
connect_each(conns, signal, handlers) ==
    IF handlers = <<>> THEN conns
    ELSE connect_each(connect(conns, signal, Head(handlers)), signal, Tail(handlers))

\* A hook-up that keeps the connections the signal already has.
connect_handlers_keep(signal, handlers) ==
    connect_each(connections, signal, handlers)

\* DrawingArea.__connect_handlers: drop the signal's connections, then connect
\* the handlers in the order given.
connect_handlers(signal, handlers) ==
    connect_each(disconnect(connections, signal), signal, handlers)

set_keydown_handler(key_handler, controls_area_slot) ==
    connections' = connect_handlers("keydown", <<key_handler, controls_area_slot>>)

set_keyup_handler(key_handler, controls_area_slot) ==
    connections' = connect_handlers("keyup", <<key_handler, controls_area_slot>>)

set_mouseclick_handler(mouse_handler, controls_area_slot) ==
    connections' = connect_handlers("mouseclick", <<mouse_handler, controls_area_slot>>)

set_mousedrag_handler(mouse_handler, controls_area_slot) ==
    connections' = connect_handlers("mousedrag", <<mouse_handler, controls_area_slot>>)

\* An emit that runs the slots last connected first.
emit_reversed(signal, arg) ==
    LET n == Len(connections[signal])
    IN [i \in 1..n |-> [arg |-> arg, slot |-> connections[signal][n + 1 - i]]]

\* Signal.emit: every connected slot is called with the argument, in
\* connection order.
emit(signal, arg) ==
    [i \in 1..Len(connections[signal]) |-> [arg |-> arg, slot |-> connections[signal][i]]]

\* int(event.key()): the integer code of the Qt.Key.
int_key(key) == KeyCode[key]

\* event.pos().toTuple(): the QPoint as an (x, y) tuple.
toTuple(pos) == <<pos.x, pos.y>>

\* A key-press handler without the check_started decorator.
keyPressEvent_unchecked(key) ==
    invoked' = emit("keydown", int_key(key))

\* The four event handlers, each under @check_started: nothing happens unless
\* the surface is started.
keyPressEvent(key) ==
    invoked' = IF ~started THEN <<>> ELSE emit("keydown", int_key(key))

keyReleaseEvent(key) ==
    invoked' = IF ~started THEN <<>> ELSE emit("keyup", int_key(key))

mouseReleaseEvent(pos) ==
    invoked' = IF ~started THEN <<>> ELSE emit("mouseclick", toTuple(pos))

mouseMoveEvent(pos) ==
    invoked' = IF ~started THEN <<>> ELSE emit("mousedrag", toTuple(pos))

\* History of a set_*_handler call.
SetHistory(kind, h) ==
    /\ latest' = [latest EXCEPT ![kind] = h]
    /\ earlier' = [earlier EXCEPT ![kind] = (@ \cup ({latest[kind]} \ {None})) \ {h}]
    /\ last_evop' = [seq |-> 1 - last_evop.seq, kind |-> kind, op |-> "set", input |-> h]
    /\ invoked' = <<>>

\* History of an input event.
EventHistory(kind, input) ==
    /\ last_evop' = [seq |-> 1 - last_evop.seq, kind |-> kind, op |-> "event", input |-> input]
    /\ UNCHANGED <<latest, earlier>>

\* DrawingArea.set_keydown_handler and its three siblings, called as
\* tests/test_canvas.py calls them, with the user's handler and a slot for
\* the control panel.
SetKeydownHandler(h, controls_area_slot) ==
    /\ set_keydown_handler(h, controls_area_slot)
    /\ SetHistory("keydown", h)
    /\ UNCHANGED <<appVars, drawVars, imgVars, canvasVars, objVars>>

SetKeyupHandler(h, controls_area_slot) ==
    /\ set_keyup_handler(h, controls_area_slot)
    /\ SetHistory("keyup", h)
    /\ UNCHANGED <<appVars, drawVars, imgVars, canvasVars, objVars>>

SetMouseclickHandler(h, controls_area_slot) ==
    /\ set_mouseclick_handler(h, controls_area_slot)
    /\ SetHistory("mouseclick", h)
    /\ UNCHANGED <<appVars, drawVars, imgVars, canvasVars, objVars>>

SetMousedragHandler(h, controls_area_slot) ==
    /\ set_mousedrag_handler(h, controls_area_slot)
    /\ SetHistory("mousedrag", h)
    /\ UNCHANGED <<appVars, drawVars, imgVars, canvasVars, objVars>>

KeyPressEvent(key) ==
    /\ keyPressEvent(key)
    /\ EventHistory("keydown", key)
    /\ UNCHANGED connections
    /\ UNCHANGED <<appVars, drawVars, imgVars, canvasVars, objVars>>

KeyReleaseEvent(key) ==
    /\ keyReleaseEvent(key)
    /\ EventHistory("keyup", key)
    /\ UNCHANGED connections
    /\ UNCHANGED <<appVars, drawVars, imgVars, canvasVars, objVars>>

MouseReleaseEvent(pos) ==
    /\ mouseReleaseEvent(pos)
    /\ EventHistory("mouseclick", pos)
    /\ UNCHANGED connections
    /\ UNCHANGED <<appVars, drawVars, imgVars, canvasVars, objVars>>

MouseMoveEvent(pos) ==
    /\ mouseMoveEvent(pos)
    /\ EventHistory("mousedrag", pos)
    /\ UNCHANGED connections
    /\ UNCHANGED <<appVars, drawVars, imgVars, canvasVars, objVars>>

\* DrawingArea.__init__ run for the main widget a frame builds: the frame's
\* surface is a new DrawingArea, not started, with no draw handler, no
\* primitives, the black background and no slot connected.
DrawingArea_init ==
    /\ started' = FALSE
    /\ draw_handler' = None
    /\ draw_timer_id' = -1
    /\ timers' = {}
    /\ objects' = <<>>
    /\ new_objects' = <<>>
    /\ aliased' = FALSE
    /\ background' = "black"
    /\ pixmap' = [bg |-> "black", prims |-> <<>>]
    /\ tick_renders' = 0
    /\ ncalls' = 0
    /\ tick_raised' = FALSE
    /\ painted' = <<>>
    /\ brushes' = <<>>
    /\ render_raised' = None
    /\ nticks' = 0
    /\ ndiff' = 0
    /\ connections' = [k \in Kinds |-> <<>>]
    /\ invoked' = <<>>
    /\ latest' = [k \in Kinds |-> None]
    /\ earlier' = [k \in Kinds |-> {}]
    /\ last_evop' = [seq |-> 0, kind |-> None, op |-> "none", input |-> None]

InitEvents ==
    /\ connections = [k \in Kinds |-> <<>>]
    /\ invoked = <<>>
    /\ latest = [k \in Kinds |-> None]
    /\ earlier = [k \in Kinds |-> {}]
    /\ last_evop = [seq |-> 0, kind |-> None, op |-> "none", input |-> None]

NextEvents ==
    \/ \E id \in TimerIds : Start(id)
    \/ \E h \in EventHandlers : SetKeydownHandler(h, controls_slot["keydown"])
    \/ \E h \in EventHandlers : SetKeyupHandler(h, controls_slot["keyup"])
    \/ \E h \in EventHandlers : SetMouseclickHandler(h, controls_slot["mouseclick"])
    \/ \E h \in EventHandlers : SetMousedragHandler(h, controls_slot["mousedrag"])
    \/ \E key \in Keys : KeyPressEvent(key)
    \/ \E key \in Keys : KeyReleaseEvent(key)
    \/ \E pos \in Positions : MouseReleaseEvent(pos)
    \/ \E pos \in Positions : MouseMoveEvent(pos)

\* simplequi.load_image(url) / Image.__init__.  Its first statement,
\* request(url, self.__load_image), hands two arguments to a function that
\* takes one: the call raises TypeError, no fetch is started and the
\* statement that enters the handle into _IMAGE_CACHE is not reached.
LoadImage(image) ==
    /\ image \notin DOMAIN IMAGE_CACHE
    /\ img_raised' = "TypeError"
    /\ last_imgop' = [seq |-> 1 - last_imgop.seq, image |-> image, key |-> None, ret |-> NoneValue,
                      op |-> "load"]
    /\ UNCHANGED <<IMAGE_CACHE, PIXMAP_CACHE, replies, npixmaps, fetched>>
    /\ UNCHANGED <<appVars, drawVars, evVars, canvasVars, objVars>>

\* _url.request_with_callback(url, callback), called with the __load_image
\* of a handle: the GET is under way, its finished signal connected to
\* _on_finished with the callback.
RequestWithCallback(image) ==
    /\ replies[image] = "none"
    /\ replies' = [replies EXCEPT ![image] = "pending"]
    /\ img_raised' = None
    /\ fetched' = [fetched EXCEPT ![image] = "loading"]
    /\ last_imgop' = [seq |-> 1 - last_imgop.seq, image |-> image, key |-> None, ret |-> NoneValue,
                      op |-> "request"]
    /\ UNCHANGED <<IMAGE_CACHE, PIXMAP_CACHE, npixmaps>>
    /\ UNCHANGED <<appVars, drawVars, evVars, canvasVars, objVars>>

\* The reply of a handle's fetch finishes, with an error or with bytes.
OnFinished(image, error, data) ==
    /\ replies[image] = "pending"
    /\ npixmaps < MaxPixmaps
    /\ on_finished(image, error, data)
    /\ fetched' = [fetched EXCEPT ![image] = IF error = "NoError" THEN data ELSE error]
    /\ last_imgop' = [seq |-> 1 - last_imgop.seq, image |-> image, key |-> None, ret |-> NoneValue,
                      op |-> "finished"]
    /\ UNCHANGED <<appVars, drawVars, evVars, canvasVars, objVars>>

\* get_width(), get_height() and get_pixmap called for a handle whose fetch
\* was started.
GetWidth(image) ==
    /\ replies[image] # "none"
    /\ last_imgop' = [seq |-> 1 - last_imgop.seq, image |-> image, key |-> None,
                      ret |-> IF get_width(image).exc # None THEN NoneValue
                              ELSE get_width(image).val,
                      op |-> "get_width"]
    /\ img_raised' = get_width(image).exc
    /\ UNCHANGED <<IMAGE_CACHE, PIXMAP_CACHE, npixmaps, replies, fetched>>
    /\ UNCHANGED <<appVars, drawVars, evVars, canvasVars, objVars>>

GetHeight(image) ==
    /\ replies[image] # "none"
    /\ last_imgop' = [seq |-> 1 - last_imgop.seq, image |-> image, key |-> None,
                      ret |-> IF get_height(image).exc # None THEN NoneValue
                              ELSE get_height(image).val,
                      op |-> "get_height"]
    /\ img_raised' = get_height(image).exc
    /\ UNCHANGED <<IMAGE_CACHE, PIXMAP_CACHE, npixmaps, replies, fetched>>
    /\ UNCHANGED <<appVars, drawVars, evVars, canvasVars, objVars>>

GetPixmap(image, key) ==
    /\ replies[image] # "none"
    /\ LET got == get_pixmap(IMAGE_CACHE, PIXMAP_CACHE, npixmaps, image,
                             key[1], key[2], key[3], key[4])
       IN /\ got.n <= MaxPixmaps
          /\ PIXMAP_CACHE' = got.pc
          /\ npixmaps' = got.n
          /\ last_imgop' = [seq |-> 1 - last_imgop.seq, image |-> image, key |-> key,
                            ret |-> got.ret, op |-> "get_pixmap"]
          /\ img_raised' = got.exc
    /\ UNCHANGED <<IMAGE_CACHE, replies, fetched>>
    /\ UNCHANGED <<appVars, drawVars, evVars, canvasVars, objVars>>

InitImage ==
    /\ IMAGE_CACHE = <<>>
    /\ PIXMAP_CACHE = <<>>
    /\ replies = [i \in Imgs |-> "none"]
    /\ npixmaps = 0
    /\ img_raised = None
    /\ fetched = [i \in Imgs |-> "none"]
    /\ last_imgop = [seq |-> 0, image |-> None, key |-> None, ret |-> NoneValue, op |-> "none"]

NextImage ==
    \/ \E image \in Imgs : LoadImage(image)
    \/ \E image \in Imgs : RequestWithCallback(image)
    \/ \E image \in Imgs, data \in Datas : OnFinished(image, "NoError", data)
    \/ \E image \in Imgs : OnFinished(image, NetworkError, None)
    \/ \E image \in Imgs : GetWidth(image)
    \/ \E image \in Imgs : GetHeight(image)
    \/ \E image \in Imgs, key \in ViewKeys : GetPixmap(image, key)

\* Angles a script may hand to draw_arc, as the floats Python computes.
half_pi == float_truediv(pi, float_of_int(2))                                 \* math.pi / 2
three_half_pi == float_truediv(float_mul(float_of_int(3), pi), float_of_int(2))   \* 3 * math.pi / 2
two_pi == float_mul(float_of_int(2), pi)                                      \* 2 * math.pi
third_pi == float_truediv(pi, float_of_int(3))                                \* math.pi / 3

\* A draw call made by a script: the exception escapes to the caller, else
\* the primitive (if there is one) goes to add_object.
DrawCall(name, args, r) ==
    /\ (r.exc = None /\ r.val # <<>>) => Len(new_objects) < MaxLen
    /\ canvas_raised' = r.exc
    /\ IF r.exc = None /\ r.val # <<>>
       THEN add_object(r.val)
       ELSE UNCHANGED <<new_objects, objects>>
    /\ last_draw' = [seq |-> 1 - last_draw.seq, args |-> args, call |-> name]
    /\ UNCHANGED <<started, draw_handler, draw_timer_id, timers, aliased, background,
                   tick_renders, ncalls, tick_raised, nticks, ndiff, renderVars>>
    /\ UNCHANGED <<IMAGE_CACHE, replies, img_raised, fetched, last_imgop>>
    /\ UNCHANGED <<appVars, evVars, objVars>>

DrawText(pt, font_size) ==
    DrawCall("draw_text", <<pt, font_size>>, draw_text("TEXT", pt, font_size, str("yellow"), "monospace"))

DrawLine(point1, point2, line_width, line_color) ==
    DrawCall("draw_line", <<point1, point2, line_width, line_color>>,
             draw_line(point1, point2, line_width, line_color))

DrawPolyline(point_list, line_width) ==
    DrawCall("draw_polyline", <<point_list, line_width>>, draw_polyline(point_list, line_width, str("red")))

DrawPolygon(point_list, line_width) ==
    DrawCall("draw_polygon", <<point_list, line_width>>,
             draw_polygon(point_list, line_width, str("blue"), str("green")))

DrawCircle(center_point, radius, line_width) ==
    DrawCall("draw_circle", <<center_point, radius, line_width>>,
             draw_circle(center_point, radius, line_width, str("red"), NoneValue))

DrawArc(center_point, radius, line_width) ==
    DrawCall("draw_arc", <<center_point, radius, line_width>>,
             draw_arc(center_point, radius, pi, three_half_pi, line_width, str("black"),
                      NoneValue))

DrawPoint(pt) ==
    DrawCall("draw_point", <<pt>>, draw_point(pt, str("red")))

DrawImage(image, center_dest) ==
    /\ replies[image] # "none"
    /\ DrawCall("draw_image", <<image, center_dest>>,
                draw_image(image, point(20, 10), point(40, 20), center_dest, point(45, 25), num(15)))

\* A tick (__draw) whose callback makes the draw calls given; run is the
\* outcome of the callback.
ticked(calls, run) ==
    /\ draw(run.rec, run.exc # None)
    /\ TickHistory(run.rec, run.exc # None)
    /\ canvas_raised' = IF started /\ draw_handler # None THEN run.exc ELSE None
    /\ last_draw' = [seq |-> 1 - last_draw.seq, args |-> calls, call |-> "draw_handler"]
    /\ UNCHANGED <<started, draw_handler, draw_timer_id, timers, background>>
    /\ UNCHANGED <<IMAGE_CACHE, replies, img_raised, fetched, last_imgop>>
    /\ UNCHANGED <<appVars, evVars, objVars>>

DrawTick(calls) ==
    /\ nticks < MaxDraws
    /\ ticked(calls, draw_handler_run(calls, <<>>))

\* Qt delivers the event of an active timer of the widget to timerEvent; the
\* history keeps the timer's id and the callback the event invoked, if any.
TickEvent(id, rec) ==
    /\ id \in timers
    /\ nticks < MaxTicks
    /\ timerEvent(id, rec, FALSE)
    /\ IF id = draw_timer_id \/ ncalls' # ncalls
       THEN TickHistory(rec, FALSE)
       ELSE UNCHANGED <<nticks, ndiff>>
    /\ last_draw' = [seq |-> 1 - last_draw.seq,
                     args |-> <<id, IF ncalls' # ncalls THEN draw_handler ELSE None>>,
                     call |-> "timerEvent"]
    /\ UNCHANGED canvas_raised
    /\ UNCHANGED <<started, draw_handler, draw_timer_id, timers, background>>
    /\ UNCHANGED <<IMAGE_CACHE, replies, img_raised, fetched, last_imgop>>
    /\ UNCHANGED <<appVars, evVars, objVars>>

InitCanvas ==
    /\ canvas_raised = None
    /\ last_draw = [seq |-> 0, args |-> <<>>, call |-> "none"]

\* The draw calls, and the life of one image handle to draw.
NextCanvas ==
    \/ RequestWithCallback("img1")
    \/ \E data \in Datas : OnFinished("img1", "NoError", data)
    \/ OnFinished("img1", NetworkError, None)
    \/ \E pt \in PointInputs, font_size \in ValueInputs : DrawText(pt, font_size)
    \/ \E point1 \in PointInputs, line_color \in LineColours :
           DrawLine(point1, point(0, 107), num(46), line_color)
    \/ \E point_list \in PointLists, line_width \in ValueInputs :
           DrawPolyline(point_list, line_width)
    \/ \E point_list \in PointLists, line_width \in ValueInputs :
           DrawPolygon(point_list, line_width)
    \/ \E center_point \in PointInputs, radius, line_width \in ValueInputs :
           DrawCircle(center_point, radius, line_width)
    \/ \E center_point \in PointInputs, line_width \in ValueInputs :
           DrawArc(center_point, num(205), line_width)
    \/ \E pt \in PointInputs : DrawPoint(pt)
    \/ \E center_dest \in PointInputs : DrawImage("img1", center_dest)

\* ------------------------------------------------------------------ Timer

\* TheApp.add_timer and TheApp.remove_timer, which StartStopTimer calls:
\* a running timer is a tracked resource, registered on start and
\* unregistered, with the deferred check, on stop.
add_timer(timer) == add_tracked(timer)

remove_timer(timer) == remove_tracked(timer)

\* A stop that stops the QTimer and leaves the timer registered.
Timer_stop_keeps_tracked ==
    /\ timer_active' = FALSE
    /\ UNCHANGED <<tracked, key_error, is_running, exit_requested, exits>>
    /\ queue_check_for_exit

\* A stop that unregisters the timer and leaves the QTimer running.
Timer_stop_unregisters_only ==
    /\ timer_active' = timer_active
    /\ remove_timer("T1")

\* Timer.stop / StartStopTimer.stop
Timer_stop ==
    /\ timer_active' = FALSE
    /\ remove_timer("T1")

\* create_timer(interval, timer_handler) with a handler that counts its
\* invocations and calls stop() on the n-th, as the callbacks of
\* tests/test_api.py and tests/test_timer.py do
CreateTimer(n) ==
    /\ stop_at = 0
    /\ stop_at' = n
    /\ UNCHANGED <<timer_active, timer_hist, player, sound_loaded, play_requested, last_sound,
                   main_widget, first_init, called,
                   check_queued>>
    /\ UNCHANGED <<appVars, drawVars, evVars, imgVars, canvasVars>>

\* Timer.start / StartStopTimer.start, called by the script, by a handler
\* that is running (whether or not it has called exit) or by a handler the
\* loop dispatches (it dispatches none once exit was called)
TimerStart ==
    /\ stop_at # 0
    /\ loop # "idle" \/ ~exit_requested
    /\ timer_hist.starts < MaxStarts
    /\ timer_active' = TRUE
    /\ add_timer("T1")
    /\ timer_hist' = [timer_hist EXCEPT !.starts = @ + 1, !.last = "start"]
    /\ UNCHANGED <<is_running, windows, pending, loop, exit_requested, key_error, exits,
                   runs, last_op, last_call, cb_emptied, quiesced>>
    /\ UNCHANGED <<stop_at, player, sound_loaded, play_requested, last_sound, main_widget, first_init, called,
                   check_queued>>
    /\ UNCHANGED <<drawVars, evVars, imgVars, canvasVars>>

TimerStop ==
    /\ stop_at # 0
    /\ loop # "idle" \/ ~exit_requested
    /\ pending < MaxPending
    /\ Timer_stop
    /\ timer_hist' = [timer_hist EXCEPT !.last = "stop"]
    /\ UNCHANGED <<windows, loop, runs, last_op, last_call, cb_emptied, quiesced>>
    /\ UNCHANGED <<stop_at, player, sound_loaded, play_requested, last_sound, main_widget, first_init, called,
                   check_queued>>
    /\ UNCHANGED <<drawVars, evVars, imgVars, canvasVars>>

\* QTimer.timeout of an active timer, delivered by the event loop to the
\* connected handler, the callback of tests/test_api.py: it counts the call
\* and on the stop_at-th calls stop()
TimerTimeout ==
    /\ timer_active
    /\ loop = "idle" /\ ~exit_requested
    /\ timer_hist.calls < MaxCalls
    /\ IF timer_hist.calls + 1 = stop_at
       THEN /\ pending < MaxPending
            /\ Timer_stop
            /\ timer_hist' = [timer_hist EXCEPT !.calls = @ + 1, !.last = "handler_stop"]
       ELSE /\ timer_hist' = [timer_hist EXCEPT !.calls = @ + 1]
            /\ UNCHANGED <<timer_active, tracked, key_error, pending, is_running,
                           exit_requested, exits>>
    /\ UNCHANGED <<windows, loop, runs, last_op, last_call, cb_emptied, quiesced>>
    /\ UNCHANGED <<stop_at, player, sound_loaded, play_requested, last_sound, main_widget, first_init, called,
                   check_queued>>
    /\ UNCHANGED <<drawVars, evVars, imgVars, canvasVars>>

\* QTimer.timeout delivered to the callback of tests/test_timer.py on its
\* stop_at-th invocation: it calls stop(), which unregisters the timer and
\* schedules the check, and then QApplication.instance().exit(0).
TimerTimeoutExit ==
    /\ timer_active
    /\ loop = "idle" /\ ~exit_requested
    /\ timer_hist.calls < MaxCalls /\ timer_hist.calls + 1 = stop_at
    /\ pending < MaxPending
    /\ timer_active' = FALSE
    /\ tracked' = IF "T1" \in tracked THEN tracked \ {"T1"} ELSE tracked
    /\ queue_check_for_exit
    /\ exit
    /\ timer_hist' = [timer_hist EXCEPT !.calls = @ + 1, !.last = "handler_stop"]
    /\ UNCHANGED <<key_error, exits, windows, loop, runs, last_op, last_call, cb_emptied,
                   quiesced>>
    /\ UNCHANGED <<stop_at, player, sound_loaded, play_requested, last_sound, main_widget,
                   first_init, called, check_queued>>
    /\ UNCHANGED <<drawVars, evVars, imgVars, canvasVars>>

\* QTimer.timeout delivered to a handler that, on an invocation other than
\* the one it stops for good on, calls stop() and then start() on its timer
\* (p of examples/codeskulptor_default.py): stop() unregisters the timer and
\* schedules the check, start() registers it again before the handler returns.
TimerRestart ==
    /\ timer_active
    /\ loop = "idle" /\ ~exit_requested
    /\ timer_hist.calls < MaxCalls /\ timer_hist.calls + 1 # stop_at
    /\ timer_hist.starts < MaxStarts
    /\ pending < MaxPending
    /\ queue_check_for_exit
    /\ timer_active' = TRUE
    /\ tracked' = (IF "T1" \in tracked THEN tracked \ {"T1"} ELSE tracked) \cup {"T1"}
    /\ timer_hist' = [timer_hist EXCEPT !.calls = @ + 1, !.starts = @ + 1,
                                        !.restarts = @ + 1, !.last = "start"]
    /\ UNCHANGED <<is_running, windows, loop, exit_requested, key_error, exits,
                   runs, last_op, last_call, cb_emptied, quiesced>>
    /\ UNCHANGED <<stop_at, player, sound_loaded, play_requested, last_sound, main_widget, first_init, called,
                   check_queued>>
    /\ UNCHANGED <<drawVars, evVars, imgVars, canvasVars>>

\* ------------------------------------------------------------------ Frame

\* FRAME = Frame('', 1, 1), run when the module is imported: the first
\* __reset creates the main widget with its drawing area, leaves it hidden
\* and arms the single-shot timer of __check_no_frames_created.
ImportFrame ==
    /\ first_init
    /\ loop = "out"
    /\ first_init' = FALSE
    /\ main_widget' = "placeholder"
    /\ windows' = windows \cup {"placeholder"}
    /\ check_queued' = TRUE
    /\ UNCHANGED <<called, pending>>
    /\ UNCHANGED <<is_running, tracked, loop, exit_requested, key_error, exits, runs,
                   last_op, last_call, cb_emptied, quiesced>>
    /\ UNCHANGED <<timer_active, stop_at, timer_hist, player, sound_loaded, play_requested,
                   last_sound>>
    /\ DrawingArea_init
    /\ UNCHANGED <<imgVars, canvasVars>>

\* A create_frame that leaves the old main widget open.
CreateFrame_keeps_old(w) ==
    /\ ~first_init
    /\ loop # "idle" \/ ~exit_requested
    /\ w \notin windows
    /\ main_widget' = w
    /\ windows' = windows \cup {w}
    /\ called' = TRUE
    /\ UNCHANGED <<first_init, check_queued, pending>>
    /\ UNCHANGED <<is_running, tracked, loop, exit_requested, key_error, exits, runs,
                   last_op, last_call, cb_emptied, quiesced>>
    /\ UNCHANGED <<timer_active, stop_at, timer_hist, player, sound_loaded, play_requested,
                   last_sound>>
    /\ DrawingArea_init
    /\ UNCHANGED <<imgVars, canvasVars>>

\* create_frame / reset_frame / Frame.__reset on the module's frame: the old
\* main widget, if there is one, is closed (Qt emits lastWindowClosed when no
\* visible window is left), a new one, w, is created with a new drawing area
\* and shown.  The frame is not handed to add_tracked.
CreateFrame(w) ==
    /\ ~first_init
    /\ loop # "idle" \/ ~exit_requested
    /\ w \notin windows
    /\ main_widget' = w
    /\ windows' = (windows \ {main_widget}) \cup {w}
    /\ called' = TRUE
    /\ IF main_widget # None /\ windows \ {main_widget, "placeholder"} = {}
       THEN pending < MaxPending /\ queue_check_for_exit
       ELSE UNCHANGED pending
    /\ UNCHANGED <<first_init, check_queued>>
    /\ UNCHANGED <<is_running, tracked, loop, exit_requested, key_error, exits, runs,
                   last_op, last_call, cb_emptied, quiesced>>
    /\ UNCHANGED <<timer_active, stop_at, timer_hist, player, sound_loaded, play_requested,
                   last_sound>>
    /\ DrawingArea_init
    /\ UNCHANGED <<imgVars, canvasVars>>

\* The user closes the frame's window: MainWidget.closeEvent emits closed,
\* whose slot __on_main_widget_closed drops the reference.
CloseMainWidget ==
    /\ main_widget \in MainWidgets
    /\ loop # "idle" \/ ~exit_requested
    /\ main_widget' = None
    /\ windows' = windows \ {main_widget}
    /\ IF windows' \ {"placeholder"} = {}
       THEN pending < MaxPending /\ queue_check_for_exit
       ELSE UNCHANGED pending
    /\ UNCHANGED <<first_init, called, check_queued>>
    /\ UNCHANGED <<is_running, tracked, loop, exit_requested, key_error, exits, runs,
                   last_op, last_call, cb_emptied, quiesced>>
    /\ UNCHANGED <<timer_active, stop_at, timer_hist, player, sound_loaded, play_requested,
                   last_sound>>
    /\ UNCHANGED <<drawVars, evVars, imgVars, canvasVars>>

\* A __check_no_frames_created that closes the main widget whether or not a
\* frame was created.
CheckNoFramesCreated_always ==
    /\ check_queued
    /\ loop = "idle" /\ ~exit_requested
    /\ check_queued' = FALSE
    /\ IF main_widget # None
       THEN /\ main_widget' = None
            /\ windows' = windows \ {main_widget}
            /\ IF windows' \ {"placeholder"} = {}
               THEN pending < MaxPending /\ queue_check_for_exit
               ELSE UNCHANGED pending
       ELSE UNCHANGED <<main_widget, windows, pending>>
    /\ UNCHANGED <<first_init, called>>
    /\ UNCHANGED <<is_running, tracked, loop, exit_requested, key_error, exits, runs,
                   last_op, last_call, cb_emptied, quiesced>>
    /\ UNCHANGED <<timer_active, stop_at, timer_hist, player, sound_loaded, play_requested,
                   last_sound>>
    /\ UNCHANGED <<drawVars, evVars, imgVars, canvasVars>>

\* Frame.__check_no_frames_created, the single-shot timer of the first
\* __reset firing in the event loop: closes the main widget unless
\* create_frame was called.
CheckNoFramesCreated ==
    /\ check_queued
    /\ loop = "idle" /\ ~exit_requested
    /\ check_queued' = FALSE
    /\ IF ~called
       THEN /\ main_widget' = None
            /\ windows' = windows \ {main_widget}
            /\ IF windows' \ {"placeholder"} = {}
               THEN pending < MaxPending /\ queue_check_for_exit
               ELSE UNCHANGED pending
       ELSE UNCHANGED <<main_widget, windows, pending>>
    /\ UNCHANGED <<first_init, called>>
    /\ UNCHANGED <<is_running, tracked, loop, exit_requested, key_error, exits, runs,
                   last_op, last_call, cb_emptied, quiesced>>
    /\ UNCHANGED <<timer_active, stop_at, timer_hist, player, sound_loaded, play_requested,
                   last_sound>>
    /\ UNCHANGED <<drawVars, evVars, imgVars, canvasVars>>

InitObjects ==
    /\ timer_active = FALSE
    /\ stop_at = 0
    /\ timer_hist = [calls |-> 0, starts |-> 0, last |-> "none", restarts |-> 0]
    /\ player = [error |-> "NoError", state |-> "StoppedState",
                 mediaStatus |-> None]
    /\ sound_loaded = FALSE
    /\ play_requested = FALSE
    /\ last_sound = [seq |-> 0, op |-> "none"]
    /\ main_widget = None
    /\ first_init = TRUE
    /\ called = FALSE
    /\ check_queued = FALSE

\* The objects that keep the application running, a timer and the frame,
\* and the event loop that delivers the timeouts.
NextTracked ==
    \/ \E n \in 1..MaxCalls : CreateTimer(n)
    \/ TimerStart
    \/ TimerStop
    \/ TimerTimeout
    \/ TimerTimeoutExit
    \/ TimerRestart
    \/ ImportFrame
    \/ \E w \in MainWidgets : CreateFrame(w)
    \/ CloseMainWidget
    \/ CheckNoFramesCreated
    \/ CallExec
    \/ BeginCallback
    \/ CallExit
    \/ EndCallback
    \/ CheckForExit
    \/ ExecReturn

\* ------------------------------------------------------------------ Sound

\* QMediaPlayer.MediaStatus, the enum slot __on_status_changed compares by value
MediaStatusValue ==
    [UnknownMediaStatus |-> 0, NoMedia |-> 1, LoadingMedia |-> 2, LoadedMedia |-> 3,
     StalledMedia |-> 4, BufferingMedia |-> 5, BufferedMedia |-> 6, EndOfMedia |-> 7,
     InvalidMedia |-> 8]
\* values of QMediaPlayer.error() a player may report
MediaErrors == {"NoError", "ResourceError"}

\* A play() that forgets the request when the sound is not loaded.
play_forgets_request(p, loaded) ==
    /\ IF loaded
       THEN player' = [p EXCEPT !.state = "PlayingState"] /\ add_tracked("S1")
       ELSE player' = p /\ tracked' = tracked
    /\ play_requested' = (loaded \/ play_requested)

\* Sound.play on a player in state p, with __sound_loaded as given
play(p, loaded) ==
    /\ IF loaded
       THEN player' = [p EXCEPT !.state = "PlayingState"] /\ add_tracked("S1")
       ELSE player' = p /\ tracked' = tracked
    /\ play_requested' = TRUE

\* Sound.__on_status_changed, the slot of mediaStatusChanged and error, called
\* when the player has become p
on_status_changed(p) ==
    IF /\ p.error = "NoError"
       /\ MediaStatusValue[p.mediaStatus] >= MediaStatusValue["LoadedMedia"]
       /\ MediaStatusValue[p.mediaStatus] < MediaStatusValue["InvalidMedia"]
    THEN /\ sound_loaded' = TRUE
         /\ IF play_requested /\ p.mediaStatus # "EndOfMedia"
            THEN /\ play(p, TRUE)
                 /\ UNCHANGED <<key_error, pending, is_running, exit_requested, exits>>
            ELSE /\ player' = p
                 /\ play_requested' = FALSE
                 /\ remove_tracked("S1")
    ELSE /\ sound_loaded' = FALSE
         /\ player' = p
         /\ play_requested' = FALSE
         /\ remove_tracked("S1")

\* load_sound(url) / Sound.__init__: the player starts to load the media
LoadSound ==
    /\ player.mediaStatus = None
    /\ loop # "idle" \/ ~exit_requested
    /\ player' = [player EXCEPT !.mediaStatus = "LoadingMedia"]
    /\ add_tracked("S1")
    /\ sound_loaded' = FALSE
    /\ play_requested' = FALSE
    /\ last_sound' = [seq |-> 1 - last_sound.seq, op |-> "init"]
    /\ UNCHANGED <<is_running, windows, pending, loop, exit_requested, key_error, exits,
                   runs, last_op, last_call, cb_emptied, quiesced>>
    /\ UNCHANGED <<timer_active, stop_at, timer_hist, main_widget, first_init, called,
                   check_queued>>
    /\ UNCHANGED <<drawVars, evVars, imgVars, canvasVars>>

Play ==
    /\ player.mediaStatus # None
    /\ loop # "idle" \/ ~exit_requested
    /\ play(player, sound_loaded)
    /\ last_sound' = [seq |-> 1 - last_sound.seq, op |-> "play"]
    /\ UNCHANGED <<is_running, windows, pending, loop, exit_requested, key_error, exits,
                   runs, last_op, last_call, cb_emptied, quiesced>>
    /\ UNCHANGED <<timer_active, stop_at, timer_hist, sound_loaded, main_widget, first_init, called,
                   check_queued>>
    /\ UNCHANGED <<drawVars, evVars, imgVars, canvasVars>>

\* Sound.pause
Pause ==
    /\ player.mediaStatus # None
    /\ loop # "idle" \/ ~exit_requested
    /\ pending < MaxPending
    /\ IF sound_loaded
       THEN player' = [player EXCEPT !.state = "PausedState"] /\ remove_tracked("S1")
       ELSE UNCHANGED <<player, tracked, key_error, pending, is_running, exit_requested,
                        exits>>
    /\ play_requested' = FALSE
    /\ last_sound' = [seq |-> 1 - last_sound.seq, op |-> "pause"]
    /\ UNCHANGED <<windows, loop, runs, last_op, last_call, cb_emptied, quiesced>>
    /\ UNCHANGED <<timer_active, stop_at, timer_hist, sound_loaded, main_widget, first_init, called,
                   check_queued>>
    /\ UNCHANGED <<drawVars, evVars, imgVars, canvasVars>>

\* Sound.rewind
Rewind ==
    /\ player.mediaStatus # None
    /\ loop # "idle" \/ ~exit_requested
    /\ pending < MaxPending
    /\ IF sound_loaded
       THEN player' = [player EXCEPT !.state = "StoppedState"] /\ remove_tracked("S1")
       ELSE UNCHANGED <<player, tracked, key_error, pending, is_running, exit_requested,
                        exits>>
    /\ play_requested' = FALSE
    /\ last_sound' = [seq |-> 1 - last_sound.seq, op |-> "rewind"]
    /\ UNCHANGED <<windows, loop, runs, last_op, last_call, cb_emptied, quiesced>>
    /\ UNCHANGED <<timer_active, stop_at, timer_hist, sound_loaded, main_widget, first_init, called,
                   check_queued>>
    /\ UNCHANGED <<drawVars, evVars, imgVars, canvasVars>>

\* The event loop delivers mediaStatusChanged or error of the player to
\* __on_status_changed, which reads the status and the error the player
\* reports at that moment.  The player is Qt's: it may report any status with
\* or without an error; it is stopped once it reports EndOfMedia or
\* InvalidMedia and keeps its state otherwise.
MediaStatusChanged(status, error) ==
    /\ player.mediaStatus # None
    /\ loop = "idle" /\ ~exit_requested
    /\ pending < MaxPending
    /\ on_status_changed([error |-> error,
                          state |-> IF status \in {"EndOfMedia", "InvalidMedia"}
                                    THEN "StoppedState" ELSE player.state,
                          mediaStatus |-> status])
    /\ last_sound' = [seq |-> 1 - last_sound.seq, op |-> "status"]
    /\ UNCHANGED <<windows, loop, runs, last_op, last_call, cb_emptied, quiesced>>
    /\ UNCHANGED <<timer_active, stop_at, timer_hist, main_widget, first_init, called,
                   check_queued>>
    /\ UNCHANGED <<drawVars, evVars, imgVars, canvasVars>>

\* One sound, and the event loop that delivers the signals of its player.
NextSound ==
    \/ LoadSound
    \/ Play
    \/ Pause
    \/ Rewind
    \/ \E status \in DOMAIN MediaStatusValue, error \in MediaErrors :
           MediaStatusChanged(status, error)
    \/ CallExec
    \/ BeginCallback
    \/ CallExit
    \/ EndCallback
    \/ CheckForExit
    \/ ExecReturn

\* The draw calls a draw callback is made of: one of every kind the Canvas
\* records, a text of size 0.5, a line of a colour that is none, and the
\* polyline of a flat list of two numbers.
ScriptCalls ==
    <<[args |-> <<point(500, 500), num(200), num(20), str("red"), str("#00FF00")>>,
       call |-> "draw_circle"],
      [args |-> <<point(107, 42), str("red")>>, call |-> "draw_point"],
      [args |-> <<point(1053, 948), num(205), pi, three_half_pi, num(46), str("black"),
                  NoneValue>>,
       call |-> "draw_arc"],
      [args |-> <<"TEXT", point(107, 42), num(120), str("yellow"), "monospace">>,
       call |-> "draw_text"],
      [args |-> <<"img1", point(20, 10), point(40, 20), point(107, 42), point(45, 25),
                  num(15)>>,
       call |-> "draw_image"],
      [args |-> <<point(107, 42), point(0, 107), num(46), str("notacolour")>>,
       call |-> "draw_line"],
      [args |-> <<"TEXT", point(107, 42), num(5), str("yellow"), "monospace">>,
       call |-> "draw_text"],
      [args |-> <<seq(<<num(107), num(42)>>), num(46), str("red")>>,
       call |-> "draw_polyline"]>>

\* The n items of the list that begin at its item k, the first following
\* the last.
script(list, k, n) == [i \in 1..n |-> list[((k + i - 2) % Len(list)) + 1]]

\* The ticks of a surface whose draw callback is a script of draw calls,
\* while the fetch of the image it draws goes on.
NextRender ==
    \/ RequestWithCallback("img1")
    \/ \E data \in Datas : OnFinished("img1", "NoError", data)
    \/ SetDrawHandler("h1", 1)
    \/ Start(1)
    \/ \E k \in 1..Len(ScriptCalls), n \in 0..MaxScript : DrawTick(script(ScriptCalls, k, n))

\* The arcs a draw callback draws: <<start_angle, end_angle>>.
ArcAngles ==
    <<<<pi, three_half_pi>>,
      <<py_float("4.7"), py_float("1.0")>>,
      <<py_float("1.0"), py_float("3.1")>>,
      <<float_of_int(0), half_pi>>,
      <<third_pi, pi>>,
      <<three_half_pi, py_float("0.3807")>>,
      <<py_float("0.3807"), two_pi>>,
      <<half_pi, pi>>>>

\* The draw_arc call of the arc angles, with the fill colour given.
arc_call(angles, fill_color) ==
    [args |-> <<point(1053, 948), num(205), angles[1], angles[2], num(46), str("black"),
                fill_color>>,
     call |-> "draw_arc"]

\* The ticks of a surface whose draw callback draws arcs, filled and not.
NextArc ==
    \/ SetDrawHandler("h1", 1)
    \/ Start(1)
    \/ \E k \in 1..Len(ArcAngles), n \in 1..MaxScript :
         \E fill_color \in {NoneValue, str("Aqua")} :
           DrawTick([i \in 1..n |-> arc_call(script(ArcAngles, k, n)[i], fill_color)])

\* The ticks of a surface whose draw callback draws one image handle, the
\* same draw_image call in every tick, while the handle's fetch goes on.
NextAsset ==
    \/ LoadImage("img1")
    \/ RequestWithCallback("img1")
    \/ \E data \in Datas : OnFinished("img1", "NoError", data)
    \/ OnFinished("img1", NetworkError, None)
    \/ SetDrawHandler("h1", 1)
    \/ Start(1)
    \/ \E first \in {<<>>, <<[args |-> <<point(107, 42), str("red")>>,
                              call |-> "draw_point"]>>} :
           replies["img1"] # "none" /\
           DrawTick(first \o <<[args |-> <<"img1", point(20, 10), point(40, 20),
                                           point(107, 42), point(45, 25), num(15)>>,
                                call |-> "draw_image"]>>)

\* The tick timers of the surface and their events.
NextTick ==
    \/ \E h \in Handlers \cup {None}, id \in TimerIds : SetDrawHandler(h, id)
    \/ \E id \in TimerIds : Start(id)
    \/ \E id \in TimerIds, rec \in Recordings : TickEvent(id, rec)

\* The ticks of a surface whose draw callback draws circles, filled and not.
NextPaint ==
    \/ SetDrawHandler("h1", 1)
    \/ Start(1)
    \/ \E n \in 1..MaxScript :
          \E fills \in [1..n -> {NoneValue, str("blue"), str("white")}] :
              DrawTick([i \in 1..n |->
                          [args |-> <<point(500, 500), num(200), num(20), str("red"),
                                      fills[i]>>,
                           call |-> "draw_circle"]])

Init == InitApp /\ InitDraw /\ InitEvents /\ InitImage /\ InitCanvas /\ InitObjects

Next ==
    \/ NextApp \/ NextDraw \/ NextEvents \/ NextImage \/ NextCanvas
    \/ NextRender \/ NextArc \/ NextAsset \/ NextPaint \/ NextTick \/ NextTracked
    \/ NextSound

Spec == Init /\ [][Next]_vars

\* The lifecycle alone.
SpecApp == Init /\ [][NextApp]_vars

\* The drawing surface alone.
SpecDraw == Init /\ [][NextDraw]_vars

\* The input events of the drawing surface alone.
SpecEvents == Init /\ [][NextEvents]_vars

\* The image handles and their caches alone.
SpecImage == Init /\ [][NextImage]_vars

\* The draw calls of the Canvas alone.
SpecCanvas == Init /\ [][NextCanvas]_vars

\* The surface ticking with draw callbacks made of draw calls.
SpecRender == Init /\ [][NextRender]_vars

\* The surface ticking with draw callbacks that draw arcs.
SpecArc == Init /\ [][NextArc]_vars

\* A ticking surface whose repaints draw filled and unfilled primitives.
SpecPaint == Init /\ [][NextPaint]_vars

\* The tick timers of the surface alone.
SpecTick == Init /\ [][NextTick]_vars

\* A ticking surface that draws an image whose fetch is under way.
SpecAsset == Init /\ [][NextAsset]_vars

\* A timer, the frame and the event loop.
SpecTracked == Init /\ [][NextTracked]_vars

\* A sound and the event loop.
SpecSound == Init /\ [][NextSound]_vars

\* The lifecycle with the scheduling Qt guarantees: a timer that is due fires,
\* a handler returns, and exec_ returns once exit was called.
LiveApp ==
    /\ SpecApp
    /\ SF_vars(CheckForExit)
    /\ WF_vars(EndCallback)
    /\ SF_vars(ExecReturn)

\* -------------------------------------------------------------- properties

\* C1: a tick on a started surface whose callback recorded a list equal to
\* the stored one calls __render not at all, leaves the pixmap as it was and
\* keeps the stored list: the old list object, with the old contents.
DiffSuppression ==
    [][ ( /\ nticks' = nticks + 1
          /\ started /\ draw_handler # None
          /\ new_objects' = objects ) =>
            /\ tick_renders' = tick_renders
            /\ pixmap' = pixmap
            /\ painted' = painted
            /\ objects' = objects
            /\ ~aliased' ]_vars

\* C1 witness: after a repaint, a later tick recorded the same non-empty
\* list again and was suppressed.
DiffSuppressionWitness ==
    /\ started /\ ncalls >= 2 /\ tick_renders = 1 /\ ~tick_raised
    /\ objects # <<>> /\ new_objects = objects /\ ~aliased

\* C2: a tick on a started surface whose callback recorded a list that
\* differs from the stored one stores exactly the recorded list and calls
\* __render once, which paints that list; so the repaints made by ticks are
\* as many as the ticks whose recording differed from the list then stored.
DiffRepaint ==
    /\ [][ ( /\ nticks' = nticks + 1
             /\ started /\ draw_handler # None /\ ~tick_raised'
             /\ new_objects' # objects ) =>
               /\ objects' = new_objects'
               /\ tick_renders' = tick_renders + 1
               /\ pixmap' = [bg |-> background, prims |-> new_objects']
               /\ Len(painted') = Len(new_objects') + 1
               /\ render_raised' = None ]_vars
    /\ [](tick_renders = ndiff)

\* C2 witness: the callback recorded the same single circle in each of three
\* ticks, and one repaint was made.
DiffRepaintWitness ==
    /\ nticks = 3 /\ ncalls = 3 /\ tick_renders = 1 /\ ~tick_raised
    /\ Len(objects) = 1 /\ objects[1].obj_type = "Circle"
    /\ pixmap.prims = objects /\ Len(painted) = 2

\* C3: a deferred check that runs calls exit if and only if, when it runs,
\* nothing is tracked and no top-level widget exists; the lifecycle calls
\* exit in no other step, and the call clears the flag and stops the loop.
QuiescenceCheck ==
    [][ /\ last_op' = "check" =>
            ((exits' = exits + 1) <=> (tracked = {} /\ windows = {}))
        /\ exits' > exits =>
            /\ last_op' = "check"
            /\ tracked = {} /\ windows = {}
            /\ ~is_running' /\ exit_requested' ]_vars

\* C3 witness: a check has just run with nothing left and called exit.
QuiescenceCheckWitness ==
    /\ last_op = "check" /\ exits = 1 /\ exit_requested
    /\ tracked = {} /\ windows = {}

\* C4: no step of user code runs a check or makes the lifecycle call exit:
\* remove_tracked leaves the flag and the loop as they are, and inside a
\* callback no pending check is used up; the lifecycle calls exit only when
\* nothing is tracked, so not between an untrack and a track of one callback.
NoPrematureExit ==
    [][ /\ last_op' \in {"remove", "remove_untracked"} =>
            /\ exits' = exits
            /\ is_running' = is_running
            /\ exit_requested' = exit_requested
        /\ loop = "callback" =>
            /\ exits' = exits
            /\ pending' >= pending
            /\ exit_requested' => (exit_requested \/ last_op' = "exit")
        /\ exits' > exits => (tracked' = {} /\ loop = "idle") ]_vars

\* C4 witness: in one callback the only tracked object was untracked and
\* another was tracked; the check is pending and the loop has not been stopped.
NoPrematureExitWitness ==
    /\ loop = "callback" /\ cb_emptied /\ last_op = "add"
    /\ Cardinality(tracked) = 1 /\ windows = {}
    /\ pending > 0 /\ exits = 0 /\ ~exit_requested /\ is_running

\* C5: once a remove_tracked or the closing of the last window leaves nothing
\* tracked and no window while the loop runs, exec_ returns, unless something
\* is tracked or opened again.
AutomaticExit ==
    quiesced ~> (loop = "out" \/ tracked # {} \/ windows # {})

\* C5 witness: exec_ has returned after the lifecycle itself called exit.
AutomaticExitWitness ==
    /\ last_op = "return" /\ exits = 1 /\ loop = "out"
    /\ tracked = {} /\ windows = {} /\ ~is_running

\* C6 as stated: the lifecycle calls exit at most once in a run.
ExitAtMostOnce ==
    exits <= 1

\* C6 amended: the lifecycle calls exit once for every deferred check that
\* runs while nothing is tracked and no window exists: each call is made by
\* one check, which it uses up, so a run holds no more calls than checks.
ExitOncePerCheck ==
    [][ exits' > exits =>
            /\ exits' = exits + 1
            /\ pending' = pending - 1
            /\ last_op' = "check" ]_vars

\* C6 witness: two pending checks both found nothing left and both called exit.
ExitOncePerCheckWitness ==
    exits = 2 /\ last_op = "check" /\ tracked = {} /\ windows = {}

\* C7 as stated: the loop is entered at most once.
RunningEnteredOnce ==
    runs <= 1

\* C7 amended: the loop is entered only by an exec_ called while the flag is
\* clear and no loop runs, and exec_ called with the flag set changes nothing;
\* exit clears the flag, so a later exec_ enters the loop again.
RunningEnteredOnlyWhenStopped ==
    [][ /\ runs' # runs =>
            /\ last_op' = "exec" /\ runs' = runs + 1
            /\ ~is_running /\ loop = "out"
            /\ is_running' /\ loop' = "idle"
        /\ (last_op' = "exec" /\ is_running) =>
            UNCHANGED <<is_running, loop, runs>>
        /\ (last_op' = "exec" /\ ~is_running /\ loop = "out") =>
            runs' = runs + 1 ]_vars

\* C7 witness: the loop runs for the second time, after an exit.
RunningEnteredOnlyWhenStoppedWitness ==
    runs = 2 /\ loop = "idle" /\ is_running /\ last_op = "exec"

\* C8: every remove_tracked arms exactly one check, whether or not the object
\* was tracked; add_tracked arms none, runs none and leaves the loop alone.
RemoveAlwaysSchedules ==
    [][ /\ last_op' \in {"remove", "remove_untracked"} => pending' = pending + 1
        /\ last_op' = "add" =>
            /\ pending' = pending /\ exits' = exits
            /\ is_running' = is_running /\ exit_requested' = exit_requested
            /\ loop' = loop ]_vars

\* C8 witness: a remove_tracked of an object that was not tracked armed a check.
RemoveAlwaysSchedulesWitness ==
    last_op = "remove_untracked" /\ pending = 1 /\ runs = 0

\* C9: the tracked collection holds exactly the objects whose last call was
\* add_tracked, and no call raised.
TrackedIsSet ==
    /\ tracked = {o \in Objs : last_call[o] = "add"}
    /\ ~key_error

\* C9 witness: an untracked object was removed while another stays tracked.
TrackedIsSetWitness ==
    /\ last_op = "remove_untracked"
    /\ tracked = {"T1"} /\ last_call["T2"] = "remove"

\* C10: while start() has not been called the draw callback has never been
\* invoked, the surface holds no active tick timer and no tick has repainted,
\* whatever handlers were set and whatever ticks arrived; once started with a
\* handler set, every tick invokes the callback.
NoDrawBeforeStart ==
    /\ [](~started => (ncalls = 0 /\ timers = {} /\ tick_renders = 0))
    /\ [][ (nticks' = nticks + 1 /\ started /\ draw_handler # None) =>
               ncalls' = ncalls + 1 ]_vars

\* C10 witness: a handler is set and ticks have arrived, but the surface has
\* not been started.
NoDrawBeforeStartWitness ==
    ~started /\ draw_handler # None /\ nticks >= 2 /\ ncalls = 0

\* C11: after any sequence of start() and set_draw_handler(h) calls, h a
\* callback or None, at most one tick timer created by the surface is active,
\* and one is active only if the surface is started.
AtMostOneTickTimer ==
    /\ Cardinality(timers) <= 1
    /\ (timers # {} => started)

\* C12: while start() has not been called every key-press, key-release,
\* mouse-release and mouse-move event is dropped: no slot is invoked, neither
\* the user's handler nor the control panel's; an event that arrives after
\* start() for a kind with handlers set reaches both of them.
InputGating ==
    /\ [](~started => invoked = <<>>)
    /\ [][ (last_evop' # last_evop /\ last_evop'.op = "event" /\ started
            /\ latest[last_evop'.kind] # None) =>
               {invoked'[i].slot : i \in 1..Len(invoked')} =
                   {latest[last_evop'.kind], controls_slot[last_evop'.kind]} ]_vars

\* C12 witness: a key event arrived before start() although handlers were set
\* for its kind, and nothing was invoked.
InputGatingWitness ==
    /\ ~started /\ last_evop.op = "event" /\ last_evop.kind = "keydown"
    /\ latest["keydown"] # None /\ invoked = <<>>

\* C13: after start(), an event of a kind with handlers set invokes exactly
\* two slots: first the user's handler, then the control panel's, each once
\* and both with the event's payload (the integer key code of a key event,
\* the (x, y) tuple of a mouse event).
DeliveryOrder ==
    [][ (last_evop' # last_evop /\ last_evop'.op = "event" /\ started
         /\ latest[last_evop'.kind] # None) =>
            LET k == last_evop'.kind
                input == last_evop'.input
                payload == IF k \in {"keydown", "keyup"}
                           THEN (IF input = "Key_L" THEN 76 ELSE 16777234)
                           ELSE <<input.x, input.y>>
            IN invoked' = << [arg |-> payload, slot |-> latest[k]],
                             [arg |-> payload, slot |-> controls_slot[k]] >> ]_vars

\* C13 witness: a mouse click at (100, 75) on a started surface was delivered
\* to two slots.
DeliveryOrderWitness ==
    /\ started /\ last_evop.op = "event" /\ last_evop.kind = "mouseclick"
    /\ last_evop.input = [x |-> 100, y |-> 75]
    /\ Len(invoked) = 2

\* C14: a set call for one kind leaves that kind connected to exactly the new
\* user handler and the control panel's slot, and leaves the connections of
\* the other three kinds as they were; an event never invokes a handler that
\* an earlier set call installed and a later one replaced, and never invokes
\* one slot twice.
HandlerReplacement ==
    /\ [][ (last_evop' # last_evop /\ last_evop'.op = "set") =>
              LET k == last_evop'.kind
              IN /\ connections'[k] = <<last_evop'.input, controls_slot[k]>>
                 /\ \A j \in Kinds \ {k} : connections'[j] = connections[j] ]_vars
    /\ [][ (last_evop' # last_evop /\ last_evop'.op = "event") =>
              /\ \A i \in 1..Len(invoked') : invoked'[i].slot \notin earlier[last_evop'.kind]
              /\ \A i, j \in 1..Len(invoked') :
                     invoked'[i].slot = invoked'[j].slot => i = j ]_vars

\* C14 witness: the keyup handler was replaced, another kind has handlers too,
\* and a keyup event on the started surface was delivered.
HandlerReplacementWitness ==
    /\ started /\ last_evop.op = "event" /\ last_evop.kind = "keyup"
    /\ earlier["keyup"] # {} /\ latest["mousedrag"] # None
    /\ Len(invoked) = 2

\* C15 as stated: creating an Image returns without raising, with the fetch under way
\* and no image stored for the handle (Loading); get_width() and get_height()
\* never raise and return 0 for a handle that is Loading or Failed (network
\* error or undecodable bytes) and the decoded image's dimensions once Ready.
DimensionsFollowState ==
    /\ last_imgop.op = "load" =>
           /\ img_raised = None
           /\ IMAGE_CACHE[last_imgop.image] = NoneValue
           /\ replies[last_imgop.image] = "pending"
    /\ last_imgop.op \in {"get_width", "get_height"} =>
           LET f == fetched[last_imgop.image]
               w == IF f = "png_4x2" THEN 4 ELSE IF f = "png_2x2" THEN 2 ELSE 0
               h == IF f \in {"png_4x2", "png_2x2"} THEN 2 ELSE 0
           IN /\ img_raised = None
              /\ last_imgop.ret = IF last_imgop.op = "get_width" THEN w ELSE h

\* C16: no image operation raises, and a handle whose fetch failed with a
\* network error or delivered undecodable bytes has no image stored
\* (_IMAGE_CACHE[img] is None) and reports width 0 and height 0.
AssetFailureSilent ==
    /\ img_raised = None
    /\ \A i \in DOMAIN IMAGE_CACHE :
           fetched[i] \in {NetworkError, "not_an_image"} =>
               /\ IMAGE_CACHE[i] = NoneValue
               /\ get_width(i).val = 0 /\ get_height(i).val = 0

\* C17: _PIXMAP_CACHE holds entries only for handles that are Ready, and a
\* get_pixmap call for a handle that is not Ready returns None.
PixmapOnlyWhenReady ==
    /\ \A i \in DOMAIN PIXMAP_CACHE : fetched[i] \in {"png_4x2", "png_2x2"}
    /\ (last_imgop.op = "get_pixmap"
        /\ fetched[last_imgop.image] \notin {"png_4x2", "png_2x2"}) =>
           last_imgop.ret = NoneValue

\* C18: for a Ready handle, a get_pixmap call whose key is already cached
\* returns the cached object, builds no pixmap and leaves the cache as it was;
\* every call leaves the entries under all other keys (of this and of every
\* other handle) as they were and returns the object stored under its own
\* key; entries whose keys differ (in rotation only, too) are different objects.
CacheIdempotence ==
    /\ [][ (last_imgop'.seq # last_imgop.seq /\ last_imgop'.op = "get_pixmap"
            /\ fetched[last_imgop'.image] \in {"png_4x2", "png_2x2"}) =>
              LET i == last_imgop'.image
                  k == last_imgop'.key
              IN /\ k \in DOMAIN PIXMAP_CACHE[i] =>
                        /\ last_imgop'.ret = PIXMAP_CACHE[i][k]
                        /\ npixmaps' = npixmaps
                        /\ PIXMAP_CACHE' = PIXMAP_CACHE
                 /\ PIXMAP_CACHE'[i][k] = last_imgop'.ret
                 /\ \A j \in DOMAIN PIXMAP_CACHE : \A kk \in DOMAIN PIXMAP_CACHE[j] :
                        /\ kk \in DOMAIN PIXMAP_CACHE'[j]
                        /\ (<<j, kk>> # <<i, k>> => PIXMAP_CACHE'[j][kk] = PIXMAP_CACHE[j][kk]) ]_vars
    /\ [](\A i \in DOMAIN PIXMAP_CACHE : \A k1, k2 \in DOMAIN PIXMAP_CACHE[i] :
              k1 # k2 => PIXMAP_CACHE[i][k1].id # PIXMAP_CACHE[i][k2].id)

\* C18 witness: the rotated full-size view of a Ready handle was asked for
\* again after another pixmap had been built, and the cached object came back.
CacheIdempotenceWitness ==
    /\ last_imgop.op = "get_pixmap"
    /\ fetched[last_imgop.image] = "png_4x2"
    /\ last_imgop.key = <<<<2, 1>>, <<4, 2>>, <<4, 2>>, 1>>
    /\ last_imgop.ret # NoneValue
    /\ last_imgop.ret.id < npixmaps
    /\ <<<<2, 1>>, <<4, 2>>, <<4, 2>>, 0>> \in DOMAIN PIXMAP_CACHE[last_imgop.image]

\* C19 as stated: a draw_image call with an image that is not Ready (still loading, or
\* its fetch failed, or its bytes were no image: width or height 0) raises
\* nothing and leaves the list being recorded, and the stored list, exactly
\* as they were.
NotReadyImageNotRecorded ==
    [][ (last_draw'.seq # last_draw.seq /\ last_draw'.call = "draw_image"
         /\ fetched[last_draw'.args[1]] \notin {"png_4x2", "png_2x2"}) =>
            /\ new_objects' = new_objects
            /\ objects' = objects
            /\ canvas_raised' = None ]_vars

\* C20: every draw call records a primitive whose point and size coordinates
\* are the arguments truncated to integers; the point list of a polyline or
\* polygon is recorded as the list of its truncated points, in order.
\* (A draw_image with an image that is not Ready and an empty point list
\* record nothing and are not meant.)
IntegerCoercion ==
    [][ LET T(x) == CHOOSE n \in -20..20 :
                        IF x.v >= 0 THEN 10 * n <= x.v /\ x.v < 10 * n + 10
                        ELSE 10 * n >= x.v /\ x.v > 10 * n - 10
            TP(p) == <<T(p.items[1]), T(p.items[2])>>
            a == last_draw'.args
            c == last_draw'.call
            meant == CASE c = "draw_image" -> fetched[a[1]] \in {"png_4x2", "png_2x2"}
                       [] c \in {"draw_polyline", "draw_polygon"} -> a[1].items # <<>>
                       [] OTHER -> TRUE
            prim == new_objects'[Len(new_objects')]
        IN (last_draw'.seq # last_draw.seq /\ meant) =>
             /\ canvas_raised' = None
             /\ Len(new_objects') = Len(new_objects) + 1
             /\ CASE c = "draw_text" ->
                        /\ prim.obj_type = "Text"
                        /\ prim.args[2] = TP(a[1]) /\ prim.args[3] = T(a[2])
                  [] c = "draw_line" ->
                        /\ prim.obj_type = "Line"
                        /\ prim.args[1] = TP(a[1]) /\ prim.args[2] = TP(a[2])
                        /\ prim.args[3] = T(a[3])
                  [] c \in {"draw_polyline", "draw_polygon"} ->
                        /\ prim.obj_type = (IF c = "draw_polyline" THEN "Polyline" ELSE "Polygon")
                        /\ prim.args[1] = [i \in 1..Len(a[1].items) |-> TP(a[1].items[i])]
                        /\ prim.args[2] = T(a[2])
                  [] c = "draw_circle" ->
                        /\ prim.obj_type = "Circle"
                        /\ prim.args[1] = TP(a[1]) /\ prim.args[2] = T(a[2])
                        /\ prim.args[3] = T(a[3])
                  [] c = "draw_arc" ->
                        /\ prim.obj_type = "Arc"
                        /\ prim.args[1] = TP(a[1]) /\ prim.args[2] = T(a[2])
                        /\ prim.args[5] = T(a[3])
                  [] c = "draw_point" ->
                        /\ prim.obj_type = "Point"
                        /\ prim.args[1] = TP(a[1])
                  [] c = "draw_image" ->
                        /\ prim.obj_type = "Image"
                        /\ prim.args[2] = <<2, 1>> /\ prim.args[3] = <<4, 2>>
                        /\ prim.args[4] = TP(a[2]) /\ prim.args[5] = <<4, 2>> ]_vars

\* C21 as stated: a draw_polyline or draw_polygon call with an empty point
\* list is rejected at the call with an error that describes the argument,
\* one of the errors the package raises for a bad argument (ValueError,
\* TypeError), and leaves the recording list and the stored list as they were.
EmptyPointListRejected ==
    [][ (/\ last_draw'.seq # last_draw.seq
         /\ last_draw'.call \in {"draw_polyline", "draw_polygon"}
         /\ last_draw'.args[1].items = <<>>)
        => /\ canvas_raised' \in {"ValueError", "TypeError"}
           /\ new_objects' = new_objects
           /\ objects' = objects ]_vars

\* C22: a draw_line call whose colour string get_colour would refuse raises
\* ValueError at the call and records no primitive.
InvalidColourRejected ==
    [][ (/\ last_draw'.seq # last_draw.seq
         /\ last_draw'.call = "draw_line"
         /\ get_colour(last_draw'.args[4]).exc = "ValueError")
        => /\ canvas_raised' = "ValueError"
           /\ new_objects' = new_objects ]_vars

\* C23: a tick whose draw callback raised lets the exception out of __draw
\* and leaves the stored list, the pixmap and the repaint count as they were;
\* the tick after it records into a fresh list, so what it compares and
\* stores holds nothing of the recording the exception cut short.
CallbackExceptionEscapes ==
    [][ (nticks' = nticks + 1 /\ ncalls' = ncalls + 1) =>
          /\ tick_raised' =>
                /\ objects' = objects
                /\ pixmap' = pixmap
                /\ tick_renders' = tick_renders
          /\ (tick_raised /\ ~tick_raised') =>
                IF ndiff' = ndiff
                THEN new_objects' = objects /\ objects' = objects
                ELSE new_objects' = objects' /\ objects' # objects ]_vars

\* A callback recorded a primitive and raised: nothing was stored or painted.
CallbackExceptionEscapesWitness ==
    /\ tick_raised
    /\ Len(new_objects) = 1
    /\ objects = <<>>
    /\ pixmap.prims = <<>>
    /\ tick_renders = 0
    /\ nticks >= 2

\* C24 as stated: in a tick whose callback returns, every draw call appended
\* exactly one primitive, so the recording is the sequence of the callback's
\* draw calls in call order; when the tick repaints, the renderer of every
\* stored primitive is invoked (the ones that returned and the one that
\* raised, if one did, are all of them), in list order, and the painter calls
\* are the background fill and then one call of each renderer that returned.
ZOrderOnePrimitivePerCall ==
    [][ LET calls == last_draw'.args
            PrimitiveOf == [draw_text |-> "Text", draw_line |-> "Line",
                            draw_polyline |-> "Polyline", draw_polygon |-> "Polygon",
                            draw_circle |-> "Circle", draw_arc |-> "Arc",
                            draw_point |-> "Point", draw_image |-> "Image"]
            PainterCalls == [Circle |-> {"drawEllipse"}, Line |-> {"drawLine"},
                             Text |-> {"drawText"}, Polyline |-> {"drawPolyline"},
                             Polygon |-> {"drawPolygon"}, Arc |-> {"drawArc", "drawPie"},
                             Point |-> {"drawPoint"}, Image |-> {"drawPixmap"}]
            completed == Len(pixmap'.prims)
            entered == completed + (IF render_raised' = None THEN 0 ELSE 1)
        IN (/\ last_draw'.seq # last_draw.seq
            /\ last_draw'.call = "draw_handler"
            /\ ncalls' = ncalls + 1
            /\ canvas_raised' = None) =>
             /\ Len(new_objects') = Len(calls)
             /\ \A i \in 1..Len(calls) :
                   new_objects'[i].obj_type = PrimitiveOf[calls[i].call]
             /\ tick_renders' # tick_renders =>
                   /\ objects' = new_objects'
                   /\ painted'[1].fn = "fill"
                   /\ entered = Len(objects')
                   /\ pixmap'.prims = SubSeq(objects', 1, completed)
                   /\ Len(painted') = completed + 1
                   /\ \A i \in 1..completed :
                         painted'[i + 1].fn \in PainterCalls[objects'[i].obj_type] ]_vars

\* C24, amended: the recording of a tick holds, in call order, one primitive
\* for every draw call the callback made before one raised, except that a
\* draw_image of an image of width or height 0 appends none; the call that
\* raises (a draw_image of a handle the image cache does not hold) ends the
\* callback.  When the tick repaints, the painter calls are the background
\* fill and then, in list order and once each, the call of the renderer of
\* every stored primitive up to the first whose renderer raises; that
\* exception escapes the repaint and nothing after it is painted.
ZOrderIsEmissionOrder ==
    [][ LET calls == last_draw'.args
            PrimitiveOf == [draw_text |-> "Text", draw_line |-> "Line",
                            draw_polyline |-> "Polyline", draw_polygon |-> "Polygon",
                            draw_circle |-> "Circle", draw_arc |-> "Arc",
                            draw_point |-> "Point", draw_image |-> "Image"]
            PainterCalls == [Circle |-> {"drawEllipse"}, Line |-> {"drawLine"},
                             Text |-> {"drawText"}, Polyline |-> {"drawPolyline"},
                             Polygon |-> {"drawPolygon"}, Arc |-> {"drawArc", "drawPie"},
                             Point |-> {"drawPoint"}, Image |-> {"drawPixmap"}]
            unknown == {i \in 1..Len(calls) : /\ calls[i].call = "draw_image"
                                               /\ calls[i].args[1] \notin DOMAIN IMAGE_CACHE}
            made == IF unknown = {} THEN Len(calls)
                    ELSE (CHOOSE i \in unknown : \A j \in unknown : i <= j) - 1
            empty(c) == /\ c.call = "draw_image"
                        /\ \/ IMAGE_CACHE[c.args[1]] = NoneValue
                           \/ IMAGE_CACHE[c.args[1]].width = 0
                           \/ IMAGE_CACHE[c.args[1]].height = 0
            appending == SelectSeq(SubSeq(calls, 1, made), LAMBDA c : ~empty(c))
            solo(i) == OBJECT_RENDERERS(QPainter(PIXMAP_CACHE', npixmaps'), objects'[i])
            shown == Len(painted') - 1
        IN (/\ last_draw'.seq # last_draw.seq
            /\ last_draw'.call = "draw_handler"
            /\ ncalls' = ncalls + 1) =>
             /\ canvas_raised' = (IF unknown = {} THEN None ELSE "KeyError")
             /\ Len(new_objects') = Len(appending)
             /\ \A i \in 1..Len(appending) :
                   /\ new_objects'[i].obj_type = PrimitiveOf[appending[i].call]
                   /\ new_objects'[i] = canvas_call(appending[i]).val
             /\ tick_renders' # tick_renders =>
                   /\ objects' = new_objects'
                   /\ painted'[1].fn = "fill" /\ painted'[1].args = <<background>>
                   /\ shown <= Len(objects')
                   /\ \A i \in 1..shown :
                         \E alone \in {solo(i)} :
                            /\ alone.exc = None
                            /\ Len(alone.painter.calls) = 1
                            /\ painted'[i + 1].fn = alone.painter.calls[1].fn
                            /\ painted'[i + 1].args = alone.painter.calls[1].args
                            /\ painted'[i + 1].fn \in PainterCalls[objects'[i].obj_type]
                   /\ IF render_raised' = None THEN shown = Len(objects')
                      ELSE shown < Len(objects') /\ solo(shown + 1).exc = render_raised'
                   /\ pixmap' = [bg |-> background, prims |-> SubSeq(objects', 1, shown)] ]_vars

\* A callback drew a filled circle and then a point, and the repaint painted
\* the fill, the circle and the point.
ZOrderIsEmissionOrderWitness ==
    /\ Len(objects) = 2
    /\ objects[1].obj_type = "Circle" /\ objects[2].obj_type = "Point"
    /\ Len(painted) = 3
    /\ painted[1].fn = "fill" /\ painted[2].fn = "drawEllipse" /\ painted[3].fn = "drawPoint"
    /\ render_raised = None
    /\ tick_renders >= 2

\* C25 as stated: every arc a repaint painted has the native start
\* round(start * 360 * 16 / (2 * pi)) and the native sweep
\* -round((end - start) * 360 * 16 / (2 * pi)).  The table holds these values
\* for the arcs of ArcAngles, in its order, as Python's round() gives them.
ArcAnglesRounded ==
    LET Rounded == <<<<180 * 16, -(90 * 16)>>, <<4309, 3392>>, <<917, -1925>>,
                     <<0, -(90 * 16)>>, <<960, -1920>>, <<270 * 16, 3971>>, <<349, -5411>>,
                     <<90 * 16, -(90 * 16)>>>>
    IN \A i \in 1..Len(objects) : \A k \in 1..Len(ArcAngles) :
          (/\ Len(painted) = Len(objects) + 1
           /\ objects[i].obj_type = "Arc"
           /\ objects[i].args[3] = ArcAngles[k][1]
           /\ objects[i].args[4] = ArcAngles[k][2]) =>
             /\ painted[i + 1].args[5] = Rounded[k][1]
             /\ painted[i + 1].args[6] = Rounded[k][2]

\* C25, amended: every arc a repaint painted has the native start
\* int(360 * 16 * start / (2 * pi)) and the native sweep
\* -int(360 * 16 * (end - start) / (2 * pi)), computed in floats and int()
\* dropping the fraction (towards zero); the angles 0, pi/2, pi and 3*pi/2
\* convert exactly, to 0, 90*16, 180*16 and 270*16, and an arc from pi to
\* 3*pi/2 is painted with start 180*16 and sweep -90*16.  The table holds the
\* values for the arcs of ArcAngles, in its order, as Python computes them:
\* 1.0 rad is 916.73 sixteenths of a degree and converts to 916, pi/3 is
\* 959.9999999999999 and converts to 959.
ArcAnglesTruncated ==
    LET Truncated == <<<<180 * 16, -(90 * 16)>>, <<4308, 3391>>, <<916, -1925>>,
                       <<0, -(90 * 16)>>, <<959, -1920>>, <<270 * 16, 3970>>, <<349, -5410>>,
                       <<90 * 16, -(90 * 16)>>>>
    IN \A i \in 1..Len(objects) : \A k \in 1..Len(ArcAngles) :
          (/\ Len(painted) = Len(objects) + 1
           /\ objects[i].obj_type = "Arc"
           /\ objects[i].args[3] = ArcAngles[k][1]
           /\ objects[i].args[4] = ArcAngles[k][2]) =>
             /\ painted[i + 1].fn = (IF objects[i].args[7] = NoneValue THEN "drawArc"
                                     ELSE "drawPie")
             /\ painted[i + 1].args[5] = Truncated[k][1]
             /\ painted[i + 1].args[6] = Truncated[k][2]

\* A repaint painted the arc from pi to 3*pi/2, and one with a fractional and
\* negative sweep.
ArcAnglesTruncatedWitness ==
    /\ Len(painted) = 3
    /\ painted[2].fn = "drawArc" /\ painted[2].args = <<85, 74, 40, 40, 180 * 16, -(90 * 16)>>
    /\ painted[3].fn = "drawArc" /\ painted[3].args = <<85, 74, 40, 40, 4308, 3391>>
    /\ objects[2].args[3] = py_float("4.7") /\ objects[2].args[4] = py_float("1.0")

\* C26: is_running() (the QTimer's isActive()) is true exactly when the last call on the timer was
\* start(); the handler is invoked only while the timer is running, so never
\* between a stop() and the next start(); and a handler that calls stop() on
\* its n-th invocation has been invoked exactly n times when it has stopped
\* the timer, and no more for as long as start() is not called again.
TimerRunsBetweenStartAndStop ==
    /\ [](timer_active <=> (timer_hist.last = "start"))
    /\ [][ timer_hist'.calls # timer_hist.calls =>
              /\ timer_active
              /\ timer_hist.last = "start"
              /\ timer_hist'.calls = timer_hist.calls + 1 ]_vars
    /\ []((timer_hist.last = "handler_stop" /\ timer_hist.starts = 1) =>
              timer_hist.calls = stop_at)
    /\ [](timer_hist.starts <= 1 => timer_hist.calls <= stop_at)

\* The handler stopped the timer on its second invocation, inside the loop,
\* and the timer is no longer running.
TimerRunsBetweenStartAndStopWitness ==
    /\ stop_at = 2
    /\ timer_hist = [calls |-> 2, starts |-> 1, last |-> "handler_stop", restarts |-> 0]
    /\ ~timer_active
    /\ loop = "idle"

\* C27 as stated: the Sound is in the tracked set exactly while its player is
\* loading (its status is LoadingMedia and it has reported no error) or
\* playing.
SoundTrackedWhileLoadingOrPlaying ==
    ("S1" \in tracked) <=>
        \/ player.mediaStatus = "LoadingMedia" /\ player.error = "NoError"
        \/ player.state = "PlayingState"

FrameTrackedUntilClosed ==
    (main_widget \in MainWidgets) <=> ("frame" \in tracked)

\* C30: the stored list changes only in a tick whose recording differs from
\* it: every step that changes the stored list is a tick that stored its
\* recording, and a draw call made outside the draw callback leaves the
\* stored list as it was.
StoredBufferChangesOnlyAtTick ==
    [][ objects' # objects =>
          /\ nticks' = nticks + 1
          /\ ndiff' = ndiff + 1
          /\ objects' = new_objects' ]_vars

\* C31 as stated: a tick whose callback makes a draw_image call records no
\* image primitive while the image is loading (or failed), the call being a
\* no-op that raises nothing, and exactly one, in the
\* place of the call, once the image is Ready; the first tick that finds the
\* image Ready while the stored list holds no image primitive records a list
\* that differs from the stored one, stores it and repaints, and the repaint
\* draws the image.
LateAssetShown ==
    [][ ( /\ nticks' = nticks + 1
          /\ started /\ draw_handler # None
          /\ last_draw'.call = "draw_handler" ) =>
            LET calls == last_draw'.args
                image == calls[Len(calls)].args[1]
                images_in(l) == {i \in 1..Len(l) : l[i].obj_type = "Image"}
            IN IF fetched[image] \in {"png_4x2", "png_2x2"}
               THEN /\ images_in(new_objects') = {Len(calls)}
                    /\ Len(new_objects') = Len(calls)
                    /\ images_in(objects) = {} =>
                         /\ new_objects' # objects
                         /\ objects' = new_objects'
                         /\ tick_renders' = tick_renders + 1
                         /\ pixmap'.prims = new_objects'
                         /\ Len(painted') = Len(calls) + 1
                         /\ painted'[Len(calls) + 1].fn = "drawPixmap"
               ELSE /\ images_in(new_objects') = {}
                    /\ Len(new_objects') = Len(calls) - 1
                    /\ canvas_raised' = None ]_vars

\* C32: the image stored for a handle changes at most once: only in the
\* completion callback of the handle's fetch, and only while that fetch is
\* under way; once the fetch has finished (Ready or Failed) the stored image
\* never changes, and no call of the constructor changes what is stored.
ImageStateChangesOnce ==
    [][ \A i \in Imgs :
          LET stored(ic) == IF i \in DOMAIN ic THEN ic[i] ELSE NoneValue
              changed == \/ (i \in DOMAIN IMAGE_CACHE') # (i \in DOMAIN IMAGE_CACHE)
                         \/ stored(IMAGE_CACHE') # stored(IMAGE_CACHE)
          IN /\ changed =>
                 /\ last_imgop'.seq # last_imgop.seq
                 /\ last_imgop'.op = "finished" /\ last_imgop'.image = i
                 /\ i \notin DOMAIN IMAGE_CACHE
                 /\ fetched[i] = "loading"
             /\ fetched[i] \notin {"none", "loading"} =>
                 /\ ~changed
                 /\ fetched'[i] = fetched[i]
             /\ last_imgop'.op = "load" => ~changed ]_vars

\* C32 witness: one handle became Ready and the fetch of the other failed,
\* and a later call found both as their completion left them.
ImageStateChangesOnceWitness ==
    /\ last_imgop.op = "get_width" /\ last_imgop.image = "img1"
    /\ fetched["img1"] = "png_4x2" /\ IMAGE_CACHE["img1"] = [width |-> 4, height |-> 2]
    /\ fetched["img2"] = NetworkError /\ "img2" \notin DOMAIN IMAGE_CACHE

\* C33: the timer is in the tracked set exactly when it is running; a step
\* that stops a running timer takes it out of the set and schedules one
\* deferred check; a handler that calls stop() and then start() leaves the
\* timer running and tracked with the check scheduled; and the application
\* never exits while the timer is running.
TimerTrackedWhileRunning ==
    /\ []( timer_active <=> ("T1" \in tracked) )
    /\ [][ (timer_active /\ ~timer_active') =>
              /\ "T1" \notin tracked'
              /\ pending' = pending + 1 ]_vars
    /\ [][ timer_hist'.restarts # timer_hist.restarts =>
              /\ timer_active' /\ "T1" \in tracked'
              /\ pending' = pending + 1 ]_vars
    /\ [][ exits' = exits + 1 => ~timer_active /\ ~timer_active' ]_vars

\* C33 witness: a handler stopped and restarted the running timer inside the
\* event loop, the deferred check of that stop has run, and the loop goes on
\* with the timer running and tracked.
TimerTrackedWhileRunningWitness ==
    /\ timer_hist.restarts = 1 /\ timer_hist.starts = 2
    /\ timer_active /\ "T1" \in tracked
    /\ pending = 0 /\ loop = "idle" /\ is_running /\ exits = 0

\* C34: a get_pixmap call for a Ready handle with a key that is not cached
\* builds a pixmap of the rectangle whose top-left corner is the source
\* centre minus half the source size and whose size is the source size,
\* scaled (to the target size) exactly when the target size differs from the
\* source size and rotated exactly when the rotation is not 0; the view with
\* centre (432, 444) and size (250, 302) is cut at (307, 293).
PixmapSection ==
    /\ [][ (last_imgop'.seq # last_imgop.seq /\ last_imgop'.op = "get_pixmap"
            /\ fetched[last_imgop'.image] \in {"png_4x2", "png_2x2"}
            /\ last_imgop'.key \notin DOMAIN PIXMAP_CACHE[last_imgop'.image]) =>
              LET k == last_imgop'.key
                  s == last_imgop'.ret.section
                  Has(op) == \E j \in 1..Len(s.ops) : s.ops[j] = op
              IN /\ npixmaps' = npixmaps + 1
                 /\ last_imgop'.ret.of = IMAGE_CACHE[last_imgop'.image]
                 /\ s.corner2[1] + k[2][1] = 2 * k[1][1]
                 /\ s.corner2[2] + k[2][2] = 2 * k[1][2]
                 /\ s.cut = k[2]
                 /\ s.ops[1] = "copy"
                 /\ Has("scaled") <=> (k[3] # k[2])
                 /\ Has("scaled") => s.size = k[3]
                 /\ ~Has("scaled") => s.size = k[2]
                 /\ Has("transformed") <=> (k[4] # 0)
                 /\ Has("transformed") => s.rotation = k[4] ]_vars
    /\ [](\A i \in DOMAIN PIXMAP_CACHE :
              LET k == <<<<432, 444>>, <<250, 302>>, <<250, 302>>, 0>>
              IN k \in DOMAIN PIXMAP_CACHE[i] =>
                     /\ PIXMAP_CACHE[i][k].section.corner2 = <<2 * 307, 2 * 293>>
                     /\ PIXMAP_CACHE[i][k].section.ops = <<"copy">>)

\* C34 witness: get_pixmap built the view with centre (432, 444) and size
\* (250, 302) of a Ready handle that also holds a rotated view.
PixmapSectionWitness ==
    /\ last_imgop.op = "get_pixmap" /\ last_imgop.image = "img1"
    /\ fetched["img1"] = "png_4x2"
    /\ last_imgop.key = <<<<432, 444>>, <<250, 302>>, <<250, 302>>, 0>>
    /\ last_imgop.ret # NoneValue
    /\ last_imgop.ret.id = npixmaps
    /\ last_imgop.ret.section.corner2 = <<614, 586>>
    /\ <<<<2, 1>>, <<4, 2>>, <<4, 2>>, 1>> \in DOMAIN PIXMAP_CACHE["img1"]
    /\ PIXMAP_CACHE["img1"][<<<<2, 1>>, <<4, 2>>, <<4, 2>>, 1>>].section.ops
           = <<"copy", "transformed">>

\* C35: the draw callback is invoked only by an event of the tick timer the
\* surface created last, and the callback invoked is the one set last: the
\* event of any other timer (a tick timer created before the latest
\* set_draw_handler call too) invokes nothing and leaves the surface as it
\* was, and every timer the surface creates becomes the draw timer.
OnlyLatestTickTimerDraws ==
    /\ [][ (last_draw'.seq # last_draw.seq /\ last_draw'.call = "timerEvent") =>
              LET id == last_draw'.args[1]
              IN /\ ncalls' # ncalls =>
                        /\ id = draw_timer_id
                        /\ started /\ draw_handler # None
                        /\ last_draw'.args[2] = draw_handler
                        /\ ncalls' = ncalls + 1
                 /\ id # draw_timer_id =>
                        /\ last_draw'.args[2] = None
                        /\ UNCHANGED <<objects, new_objects, pixmap, tick_renders, ncalls>> ]_vars
    /\ [][ (timers' \ timers) \subseteq {draw_timer_id'} ]_vars
    /\ [][ draw_timer_id' # draw_timer_id => draw_timer_id' \in timers' ]_vars

\* C35 witness: two timers of the surface are active, the callback has run
\* on events of the draw timer, and an event of the other timer, created
\* before the latest set_draw_handler call, was ignored.
OnlyLatestTickTimerDrawsWitness ==
    /\ last_draw.call = "timerEvent"
    /\ last_draw.args[1] # draw_timer_id /\ last_draw.args[2] = None
    /\ {last_draw.args[1], draw_timer_id} \subseteq timers
    /\ started /\ draw_handler # None /\ ncalls >= 1

\* C36: in a repaint every primitive is drawn from the painter state saved
\* before the first one: the brush a primitive is drawn with is the brush of
\* its own fill colour, and no brush when it has no fill colour, whatever the
\* primitives before it set.
PainterStateRestored ==
    Len(brushes) = Len(objects) =>
        \A i \in 1..Len(objects) :
            objects[i].obj_type = "Circle" =>
                brushes[i] = (IF objects[i].args[5] = NoneValue THEN NoBrush
                              ELSE QBrush([name |-> objects[i].args[5].s]))

\* C37: the hidden main widget the module creates exists only while the
\* zero-delay task is armed and create_frame has not been called: the task,
\* run by the event loop, closes it when create_frame was never called (the
\* widget is gone and the deferred check is scheduled), and closes nothing
\* when create_frame was called before it ran.
PlaceholderClosed ==
    /\ []( "placeholder" \in windows =>
               check_queued /\ ~called /\ main_widget = "placeholder" )
    /\ []( (~first_init /\ ~check_queued) => "placeholder" \notin windows )
    /\ [][ (check_queued /\ ~check_queued') =>
              /\ loop = "idle"
              /\ IF called
                 THEN main_widget' = main_widget /\ windows' = windows
                      /\ pending' = pending
                 ELSE /\ main_widget = "placeholder" /\ main_widget' = None
                      /\ windows' = windows \ {"placeholder"}
                      /\ pending' = pending + 1 ]_vars

\* C37 witness: create_frame was never called, the task closed the hidden
\* widget in the event loop, and the deferred check that followed found
\* nothing left and stopped the application.
PlaceholderClosedWitness ==
    /\ ~first_init /\ ~called /\ ~check_queued
    /\ main_widget = None /\ windows = {}
    /\ exits = 1 /\ ~is_running /\ stop_at = 0

\* C38: after any sequence of create_frame calls the frame has at most one
\* main window: the only main widget that exists is the one create_frame
\* made last, and every create_frame call closes the main widget there was
\* and shows the new one.
FrameSingleton ==
    /\ []( Cardinality(windows \cap MainWidgets) <= 1 )
    /\ []( (windows \cap MainWidgets) \subseteq {main_widget} )
    /\ [][ (called' /\ main_widget' \in MainWidgets /\ main_widget' # main_widget) =>
              /\ main_widget \notin windows'
              /\ windows' \cap (MainWidgets \cup {"placeholder"}) = {main_widget'} ]_vars

\* C38 witness: create_frame was called more than once before the event loop
\* ran (two main widgets have been closed since the import, each scheduling a
\* check), and only the window made last exists.
FrameSingletonWitness ==
    /\ called /\ main_widget = "frame1" /\ windows = {"frame1"}
    /\ runs = 0 /\ stop_at = 0 /\ pending = 2

====
